---- MODULE Spec2Model ----
(***************************************************************************)
(* A model of lintroller: the suppression-aware reporting layer            *)
(* (internal/reporter and internal/nolint) and the documentation analyzer  *)
(* (internal/doculint).                                                    *)
(*                                                                         *)
(* Go strings that the code inspects character by character (comment       *)
(* texts, linter names, identifiers, file paths) are sequences of          *)
(* one-character strings, so that prefix tests, trimming and splitting are *)
(* computed as the code computes them.  Format strings, which the code     *)
(* only passes on, are plain TLA+ strings.                                 *)
(***************************************************************************)
EXTENDS Integers, Sequences, FiniteSets, TLC

VARIABLES
    pkg,      \* the package handed to the analyzer: name and parsed files
    cfg,      \* the analyzer's package-level option variables
    pass,     \* the reporter.Pass / nolint.Pass wrapper
    sink,     \* diagnostics received by the wrapped analysis.Pass.Reportf
    stdout,   \* lines printed by the warn branch of reporter.Pass.Reportf
    calls,    \* history: the Reportf calls made on the wrapper, in order
    phase     \* "input" -> "ready" (pass built), "done" (analyzer ran) or
              \* "panicked" (the analyzer hit a run-time panic)

vars == <<pkg, cfg, pass, sink, stdout, calls, phase>>

----------------------------------------------------------------------------
(* Bounds                                                                  *)

\* lines per source file
MaxLine == 3
\* function declarations per file
MaxDecls == 1
\* files per package
MaxFiles == 2
\* comments per package
MaxComments == 1
\* Reportf calls made by a client linter on one pass
MaxReports == 2

----------------------------------------------------------------------------
(* Go string helpers (package strings), over character sequences           *)

SetMin(S) == CHOOSE x \in S : \A y \in S : x <= y

SetMax(S) == CHOOSE x \in S : \A y \in S : x >= y

HasPrefix(s, prefix) ==
    Len(s) >= Len(prefix) /\ SubSeq(s, 1, Len(prefix)) = prefix

HasSuffix(s, suffix) ==
    Len(s) >= Len(suffix) /\ SubSeq(s, Len(s) - Len(suffix) + 1, Len(s)) = suffix

TrimPrefix(s, prefix) ==
    IF HasPrefix(s, prefix) THEN SubSeq(s, Len(prefix) + 1, Len(s)) ELSE s

TrimSuffix(s, suffix) ==
    IF HasSuffix(s, suffix) THEN SubSeq(s, 1, Len(s) - Len(suffix)) ELSE s

\* Runes. A rune from U+0001 to U+00FF other than the backquote is the string
\* of that one character; every other rune is the string Go's %U verb writes
\* for it, such as "U+0060" for the backquote and "U+0130" for the dotted
\* capital I, since a string of this language cannot hold it. A Go string is
\* the sequence of its runes.

\* the runes U+0001 to U+00FF by code point
latin1 ==
  <<"", "", "", "", "", "", "", "", "\t", "\n", "", "\f", "\r", "",
    "", "", "", "", "", "", "", "", "", "", "", "", "", "",
    "", "", "", " ", "!", "\"", "#", "$", "%", "&", "'", "(", ")", "*",
    "+", ",", "-", ".", "/", "0", "1", "2", "3", "4", "5", "6", "7", "8",
    "9", ":", ";", "<", "=", ">", "?", "@", "A", "B", "C", "D", "E", "F",
    "G", "H", "I", "J", "K", "L", "M", "N", "O", "P", "Q", "R", "S", "T",
    "U", "V", "W", "X", "Y", "Z", "[", "\\", "]", "^", "_", "U+0060", "a",
    "b", "c", "d", "e", "f", "g", "h", "i", "j", "k", "l", "m", "n", "o",
    "p", "q", "r", "s", "t", "u", "v", "w", "x", "y", "z", "{", "|", "}",
    "~", "", "", "", "", "", "", "", "", "", "", "", "", "",
    "", "", "", "", "", "", "", "", "", "", "", "", "", "",
    "", "", "", "", "", "", " ", "¡", "¢", "£", "¤", "¥", "¦", "§",
    "¨", "©", "ª", "«", "¬", "­", "®", "¯", "°", "±", "²", "³", "´", "µ",
    "¶", "·", "¸", "¹", "º", "»", "¼", "½", "¾", "¿", "À", "Á", "Â", "Ã",
    "Ä", "Å", "Æ", "Ç", "È", "É", "Ê", "Ë", "Ì", "Í", "Î", "Ï", "Ð", "Ñ",
    "Ò", "Ó", "Ô", "Õ", "Ö", "×", "Ø", "Ù", "Ú", "Û", "Ü", "Ý", "Þ", "ß",
    "à", "á", "â", "ã", "ä", "å", "æ", "ç", "è", "é", "ê", "ë", "ì", "í",
    "î", "ï", "ð", "ñ", "ò", "ó", "ô", "õ", "ö", "÷", "ø", "ù", "ú", "û",
    "ü", "ý", "þ", "ÿ">>

hexDigits ==
    <<"0", "1", "2", "3", "4", "5", "6", "7", "8", "9", "A", "B", "C", "D", "E", "F">>

RECURSIVE Hex(_, _)
\* the last n hexadecimal digits of v
Hex(v, n) ==
    IF n = 0 THEN "" ELSE Hex(v \div 16, n - 1) \o hexDigits[(v % 16) + 1]

\* string(rune(v)): the rune of a code point
RuneOf(v) ==
    IF v \in DOMAIN latin1
    THEN latin1[v]
    ELSE "U+" \o Hex(v, IF v < 65536 THEN 4 ELSE IF v < 1048576 THEN 5 ELSE 6)

\* the code points of a range <<lo, hi, stride>> of a table of package unicode
RangeCodes(r) == {r[1] + k * r[3] : k \in 0..((r[2] - r[1]) \div r[3])}

\* unicode.Upper, the upper-case letters (category Lu, Unicode 14 and 15):
\* ranges <<lo, hi, stride>> of code points
unicodeUpper ==
  <<<<65, 90, 1>>, <<192, 214, 1>>, <<216, 222, 1>>, <<256, 310, 2>>,
    <<313, 327, 2>>, <<330, 376, 2>>, <<377, 381, 2>>, <<385, 386, 1>>,
    <<388, 390, 2>>, <<391, 395, 2>>, <<394, 394, 1>>, <<398, 401, 1>>,
    <<403, 404, 1>>, <<406, 408, 1>>, <<412, 413, 1>>, <<415, 416, 1>>,
    <<418, 422, 2>>, <<423, 425, 2>>, <<428, 430, 2>>, <<431, 439, 2>>,
    <<434, 434, 1>>, <<440, 440, 1>>, <<444, 444, 1>>, <<452, 452, 1>>,
    <<455, 455, 1>>, <<458, 458, 1>>, <<461, 475, 2>>, <<478, 494, 2>>,
    <<497, 497, 1>>, <<500, 562, 2>>, <<503, 503, 1>>, <<570, 571, 1>>,
    <<573, 574, 1>>, <<577, 581, 2>>, <<580, 590, 2>>, <<880, 882, 2>>,
    <<886, 886, 1>>, <<895, 895, 1>>, <<902, 910, 2>>, <<905, 905, 1>>,
    <<911, 939, 2>>, <<914, 928, 2>>, <<932, 938, 2>>, <<975, 975, 1>>,
    <<978, 980, 1>>, <<984, 1006, 2>>, <<1012, 1012, 1>>, <<1015, 1017, 2>>,
    <<1018, 1018, 1>>, <<1021, 1071, 1>>, <<1120, 1152, 2>>,
    <<1162, 1216, 2>>, <<1217, 1229, 2>>, <<1232, 1326, 2>>,
    <<1329, 1366, 1>>, <<4256, 4293, 1>>, <<4295, 4295, 1>>,
    <<4301, 4301, 1>>, <<5024, 5109, 1>>, <<7312, 7354, 1>>,
    <<7357, 7359, 1>>, <<7680, 7828, 2>>, <<7838, 7934, 2>>,
    <<7944, 7951, 1>>, <<7960, 7965, 1>>, <<7976, 7983, 1>>,
    <<7992, 7999, 1>>, <<8008, 8013, 1>>, <<8025, 8031, 2>>,
    <<8040, 8047, 1>>, <<8120, 8123, 1>>, <<8136, 8139, 1>>,
    <<8152, 8155, 1>>, <<8168, 8172, 1>>, <<8184, 8187, 1>>,
    <<8450, 8450, 1>>, <<8455, 8455, 1>>, <<8459, 8461, 1>>,
    <<8464, 8466, 1>>, <<8469, 8469, 1>>, <<8473, 8477, 1>>,
    <<8484, 8492, 2>>, <<8491, 8493, 2>>, <<8496, 8499, 1>>,
    <<8510, 8511, 1>>, <<8517, 8517, 1>>, <<8579, 8579, 1>>,
    <<11264, 11311, 1>>, <<11360, 11364, 2>>, <<11363, 11363, 1>>,
    <<11367, 11375, 2>>, <<11374, 11378, 2>>, <<11381, 11381, 1>>,
    <<11390, 11490, 2>>, <<11391, 11391, 1>>, <<11499, 11501, 2>>,
    <<11506, 11506, 1>>, <<42560, 42604, 2>>, <<42624, 42650, 2>>,
    <<42786, 42798, 2>>, <<42802, 42862, 2>>, <<42873, 42877, 2>>,
    <<42878, 42886, 2>>, <<42891, 42893, 2>>, <<42896, 42898, 2>>,
    <<42902, 42950, 2>>, <<42923, 42925, 2>>, <<42929, 42931, 2>>,
    <<42949, 42953, 2>>, <<42960, 42960, 1>>, <<42966, 42968, 2>>,
    <<42997, 42997, 1>>, <<65313, 65338, 1>>, <<66560, 66599, 1>>,
    <<66736, 66771, 1>>, <<66928, 66964, 2>>, <<66929, 66937, 2>>,
    <<66941, 66953, 2>>, <<66957, 66961, 2>>, <<66965, 66965, 1>>,
    <<68736, 68786, 1>>, <<71840, 71871, 1>>, <<93760, 93791, 1>>,
    <<119808, 119833, 1>>, <<119860, 119885, 1>>, <<119912, 119937, 1>>,
    <<119964, 119966, 2>>, <<119967, 119967, 1>>, <<119970, 119970, 1>>,
    <<119973, 119974, 1>>, <<119977, 119980, 1>>, <<119982, 119989, 1>>,
    <<120016, 120041, 1>>, <<120068, 120069, 1>>, <<120071, 120074, 1>>,
    <<120077, 120084, 1>>, <<120086, 120092, 1>>, <<120120, 120121, 1>>,
    <<120123, 120126, 1>>, <<120128, 120132, 1>>, <<120134, 120134, 1>>,
    <<120138, 120144, 1>>, <<120172, 120197, 1>>, <<120224, 120249, 1>>,
    <<120276, 120301, 1>>, <<120328, 120353, 1>>, <<120380, 120405, 1>>,
    <<120432, 120457, 1>>, <<120488, 120512, 1>>, <<120546, 120570, 1>>,
    <<120604, 120628, 1>>, <<120662, 120686, 1>>, <<120720, 120744, 1>>,
    <<120778, 120778, 1>>, <<125184, 125217, 1>>>>

\* the upper-case letters as runes
UpperRunes ==
    UNION {{RuneOf(v) : v \in RangeCodes(unicodeUpper[k])} : k \in DOMAIN unicodeUpper}

\* unicode.IsUpper
IsUpper(r) == r \in UpperRunes

\* unicode.CaseRanges read for the lower case: ranges <<lo, hi, stride, delta>>
\* of the code points that unicode.ToLower changes, by adding delta
unicodeToLower ==
  <<<<65, 90, 1, 32>>, <<192, 214, 1, 32>>, <<216, 222, 1, 32>>,
    <<256, 302, 2, 1>>, <<304, 304, 1, 0 - 199>>, <<306, 310, 2, 1>>,
    <<313, 327, 2, 1>>, <<330, 374, 2, 1>>, <<376, 376, 1, 0 - 121>>,
    <<377, 381, 2, 1>>, <<385, 385, 1, 210>>, <<386, 388, 2, 1>>,
    <<390, 390, 1, 206>>, <<391, 391, 1, 1>>, <<393, 394, 1, 205>>,
    <<395, 395, 1, 1>>, <<398, 398, 1, 79>>, <<399, 399, 1, 202>>,
    <<400, 400, 1, 203>>, <<401, 401, 1, 1>>, <<403, 403, 1, 205>>,
    <<404, 404, 1, 207>>, <<406, 406, 1, 211>>, <<407, 407, 1, 209>>,
    <<408, 408, 1, 1>>, <<412, 412, 1, 211>>, <<413, 413, 1, 213>>,
    <<415, 415, 1, 214>>, <<416, 420, 2, 1>>, <<422, 422, 1, 218>>,
    <<423, 423, 1, 1>>, <<425, 425, 1, 218>>, <<428, 428, 1, 1>>,
    <<430, 430, 1, 218>>, <<431, 431, 1, 1>>, <<433, 434, 1, 217>>,
    <<435, 437, 2, 1>>, <<439, 439, 1, 219>>, <<440, 440, 1, 1>>,
    <<444, 444, 1, 1>>, <<452, 452, 1, 2>>, <<453, 453, 1, 1>>,
    <<455, 455, 1, 2>>, <<456, 456, 1, 1>>, <<458, 458, 1, 2>>,
    <<459, 475, 2, 1>>, <<478, 494, 2, 1>>, <<497, 497, 1, 2>>,
    <<498, 500, 2, 1>>, <<502, 502, 1, 0 - 97>>, <<503, 503, 1, 0 - 56>>,
    <<504, 542, 2, 1>>, <<544, 544, 1, 0 - 130>>, <<546, 562, 2, 1>>,
    <<570, 570, 1, 10795>>, <<571, 571, 1, 1>>, <<573, 573, 1, 0 - 163>>,
    <<574, 574, 1, 10792>>, <<577, 577, 1, 1>>, <<579, 579, 1, 0 - 195>>,
    <<580, 580, 1, 69>>, <<581, 581, 1, 71>>, <<582, 590, 2, 1>>,
    <<880, 882, 2, 1>>, <<886, 886, 1, 1>>, <<895, 895, 1, 116>>,
    <<902, 902, 1, 38>>, <<904, 906, 1, 37>>, <<908, 908, 1, 64>>,
    <<910, 911, 1, 63>>, <<913, 929, 1, 32>>, <<931, 939, 1, 32>>,
    <<975, 975, 1, 8>>, <<984, 1006, 2, 1>>, <<1012, 1012, 1, 0 - 60>>,
    <<1015, 1015, 1, 1>>, <<1017, 1017, 1, 0 - 7>>, <<1018, 1018, 1, 1>>,
    <<1021, 1023, 1, 0 - 130>>, <<1024, 1039, 1, 80>>, <<1040, 1071, 1, 32>>,
    <<1120, 1152, 2, 1>>, <<1162, 1214, 2, 1>>, <<1216, 1216, 1, 15>>,
    <<1217, 1229, 2, 1>>, <<1232, 1326, 2, 1>>, <<1329, 1366, 1, 48>>,
    <<4256, 4293, 1, 7264>>, <<4295, 4295, 1, 7264>>,
    <<4301, 4301, 1, 7264>>, <<5024, 5103, 1, 38864>>, <<5104, 5109, 1, 8>>,
    <<7312, 7354, 1, 0 - 3008>>, <<7357, 7359, 1, 0 - 3008>>,
    <<7680, 7828, 2, 1>>, <<7838, 7838, 1, 0 - 7615>>, <<7840, 7934, 2, 1>>,
    <<7944, 7951, 1, 0 - 8>>, <<7960, 7965, 1, 0 - 8>>,
    <<7976, 7983, 1, 0 - 8>>, <<7992, 7999, 1, 0 - 8>>,
    <<8008, 8013, 1, 0 - 8>>, <<8025, 8031, 2, 0 - 8>>,
    <<8040, 8047, 1, 0 - 8>>, <<8072, 8079, 1, 0 - 8>>,
    <<8088, 8095, 1, 0 - 8>>, <<8104, 8111, 1, 0 - 8>>,
    <<8120, 8121, 1, 0 - 8>>, <<8122, 8123, 1, 0 - 74>>,
    <<8124, 8124, 1, 0 - 9>>, <<8136, 8139, 1, 0 - 86>>,
    <<8140, 8140, 1, 0 - 9>>, <<8152, 8153, 1, 0 - 8>>,
    <<8154, 8155, 1, 0 - 100>>, <<8168, 8169, 1, 0 - 8>>,
    <<8170, 8171, 1, 0 - 112>>, <<8172, 8172, 1, 0 - 7>>,
    <<8184, 8185, 1, 0 - 128>>, <<8186, 8187, 1, 0 - 126>>,
    <<8188, 8188, 1, 0 - 9>>, <<8486, 8486, 1, 0 - 7517>>,
    <<8490, 8490, 1, 0 - 8383>>, <<8491, 8491, 1, 0 - 8262>>,
    <<8498, 8498, 1, 28>>, <<8544, 8559, 1, 16>>, <<8579, 8579, 1, 1>>,
    <<9398, 9423, 1, 26>>, <<11264, 11311, 1, 48>>, <<11360, 11360, 1, 1>>,
    <<11362, 11362, 1, 0 - 10743>>, <<11363, 11363, 1, 0 - 3814>>,
    <<11364, 11364, 1, 0 - 10727>>, <<11367, 11371, 2, 1>>,
    <<11373, 11373, 1, 0 - 10780>>, <<11374, 11374, 1, 0 - 10749>>,
    <<11375, 11375, 1, 0 - 10783>>, <<11376, 11376, 1, 0 - 10782>>,
    <<11378, 11378, 1, 1>>, <<11381, 11381, 1, 1>>,
    <<11390, 11391, 1, 0 - 10815>>, <<11392, 11490, 2, 1>>,
    <<11499, 11501, 2, 1>>, <<11506, 11506, 1, 1>>, <<42560, 42604, 2, 1>>,
    <<42624, 42650, 2, 1>>, <<42786, 42798, 2, 1>>, <<42802, 42862, 2, 1>>,
    <<42873, 42875, 2, 1>>, <<42877, 42877, 1, 0 - 35332>>,
    <<42878, 42886, 2, 1>>, <<42891, 42891, 1, 1>>,
    <<42893, 42893, 1, 0 - 42280>>, <<42896, 42898, 2, 1>>,
    <<42902, 42920, 2, 1>>, <<42922, 42922, 1, 0 - 42308>>,
    <<42923, 42923, 1, 0 - 42319>>, <<42924, 42924, 1, 0 - 42315>>,
    <<42925, 42925, 1, 0 - 42305>>, <<42926, 42926, 1, 0 - 42308>>,
    <<42928, 42928, 1, 0 - 42258>>, <<42929, 42929, 1, 0 - 42282>>,
    <<42930, 42930, 1, 0 - 42261>>, <<42931, 42931, 1, 928>>,
    <<42932, 42946, 2, 1>>, <<42948, 42948, 1, 0 - 48>>,
    <<42949, 42949, 1, 0 - 42307>>, <<42950, 42950, 1, 0 - 35384>>,
    <<42951, 42953, 2, 1>>, <<42960, 42960, 1, 1>>, <<42966, 42968, 2, 1>>,
    <<42997, 42997, 1, 1>>, <<65313, 65338, 1, 32>>, <<66560, 66599, 1, 40>>,
    <<66736, 66771, 1, 40>>, <<66928, 66964, 2, 39>>,
    <<66929, 66937, 2, 39>>, <<66941, 66953, 2, 39>>,
    <<66957, 66961, 2, 39>>, <<66965, 66965, 1, 39>>,
    <<68736, 68786, 1, 64>>, <<71840, 71871, 1, 32>>,
    <<93760, 93791, 1, 32>>, <<125184, 125217, 1, 34>>>>

\* the runes unicode.ToLower changes, each with the rune it becomes
LowerPairs ==
    UNION {{<<RuneOf(v), RuneOf(v + unicodeToLower[k][4])>> :
                v \in RangeCodes(unicodeToLower[k])} : k \in DOMAIN unicodeToLower}

\* the runes unicode.ToLower changes
LowerDomain == {p[1] : p \in LowerPairs}

\* unicode.ToLower
ToLowerRune(r) ==
    IF r \in LowerDomain THEN (CHOOSE p \in LowerPairs : p[1] = r)[2] ELSE r

\* the white space of package unicode: the runes with the White_Space property
whiteSpace ==
    {RuneOf(v) : v \in {9, 10, 11, 12, 13, 32, 133, 160, 5760} \cup (8192..8202)
                          \cup {8232, 8233, 8239, 8287, 12288}}

\* unicode.IsSpace
IsSpace(c) == c \in whiteSpace

TrimSpace(s) ==
    LET keep == {i \in 1..Len(s) : ~IsSpace(s[i])}
    IN  IF keep = {} THEN <<>> ELSE SubSeq(s, SetMin(keep), SetMax(keep))

\* strings.Index: the 0-based index of the first occurrence, or -1
Index(s, substr) ==
    LET hits == {i \in 1..(Len(s) - Len(substr) + 1) :
                    SubSeq(s, i, i + Len(substr) - 1) = substr}
    IN  IF hits = {} THEN -1 ELSE SetMin(hits) - 1

RECURSIVE Split(_, _)
\* strings.Split with a non-empty separator; Split("", ",") is [""]
Split(s, sep) ==
    LET i == Index(s, sep)
    IN  IF i = -1
        THEN <<s>>
        ELSE <<SubSeq(s, 1, i)>> \o Split(SubSeq(s, i + Len(sep) + 1, Len(s)), sep)

\* strings.ContainsAny, with the characters given as a set
ContainsAny(s, chars) == \E i \in DOMAIN s : s[i] \in chars

upperCase == <<"A","B","C","D","E","F","G","H","I","J","K","L","M",
               "N","O","P","Q","R","S","T","U","V","W","X","Y","Z">>

lowerCase == <<"a","b","c","d","e","f","g","h","i","j","k","l","m",
               "n","o","p","q","r","s","t","u","v","w","x","y","z">>

\* strings.ToLower
ToLower(s) == [i \in DOMAIN s |-> ToLowerRune(s[i])]

----------------------------------------------------------------------------
(* Literals of the program                                                 *)

noLintDirective ==
    <<"n","o","l","i","n","t",":">>

slashes ==
    <<"/","/">>

comma ==
    <<",">>

lintDoculint ==
    <<"d","o","c","u","l","i","n","t">>

lintTodo ==
    <<"t","o","d","o">>

PackageMain ==
    <<"m","a","i","n">>

FuncMain ==
    <<"m","a","i","n">>

FuncInit ==
    <<"i","n","i","t">>

DocFilenameWithoutPath ==
    <<"d","o","c">>

dotGo ==
    <<".","g","o">>

pathSeparator ==
    <<"/">>

packagePrefix ==
    <<"P","a","c","k","a","g","e"," ">>

lintWhy ==
    <<"w","h","y">>

noLintToken ==
    <<"n","o","l","i","n","t">>

whyToken ==
    <<"W","h","y",":">>

codeGenerated ==
    <<"c","o","d","e"," ","g","e","n","e","r","a","t","e","d">>

testFilePrefix ==
    <<"t","e","s","t","_">>

testFileSuffix ==
    <<"_","t","e","s","t">>

testPackageSuffix ==
    <<"t","e","s","t">>

\* the default of the minFunLen flag
DefaultMinFunLen == 10

----------------------------------------------------------------------------
(* Inputs: comment texts and file names the bounded packages are made of   *)

cDirDoculint ==
    <<"/","/","n","o","l","i","n","t",":","d","o","c","u","l","i","n","t">>

cDirBothWhy ==
    <<"/","/"," ","n","o","l","i","n","t",":","d","o","c","u","l","i","n","t",",","t","o","d","o"," ","/","/"," ","W","h","y",":"," ","o","k">>

cDirEmpty ==
    <<"/","/","n","o","l","i","n","t",":">>

cDirEmptyWhy ==
    <<"/","/"," ","n","o","l","i","n","t",":"," ","/","/"," ","W","h","y",":"," ","o","k">>

cDirNaked ==
    <<"/","/","n","o","l","i","n","t">>

fileA ==
    <<"a",".","g","o">>

fileB ==
    <<"b",".","g","o">>

pkgFoo ==
    <<"f","o","o">>

fnFoo ==
    <<"f","o","o">>

pathFoo ==
    <<"p","/","f","o","o",".","g","o">>

pathDoc ==
    <<"p","/","d","o","c",".","g","o">>

pathBar ==
    <<"p","/","b","a","r",".","g","o">>

sfxGood ==
    <<" ","s","u","r","e"," ","i","s"," ","a"," ","f","u","n","c","t","i","o","n",".">>

midColon ==
    <<":"," ","D","o","e","s"," ","a"," ">>

sfxThing ==
    <<" ","t","h","i","n","g",".">>

midBar ==
    <<"B","a","r",":"," ","D","o","e","s"," ","a"," ">>

sfxBarThing ==
    <<"b","a","r"," ","t","h","i","n","g",".">>

sfxDot ==
    <<".">>

pfxOther ==
    <<"T","h","i","s"," ","f","u","n","c","t","i","o","n"," ","i","s"," ">>

pkgDocGood ==
    <<"P","a","c","k","a","g","e"," ","f","o","o"," ","d","o","e","s"," ","X",".">>

pkgDocOther ==
    <<"T","h","i","s"," ","p","a","c","k","a","g","e"," ","d","o","e","s"," ","X",".">>

idA ==
    <<"A">>

idB ==
    <<"B">>

idBlank ==
    <<"_">>

typT ==
    <<"T">>

typU ==
    <<"U">>

sfxDocumented ==
    <<" ","i","s"," ","d","o","c","u","m","e","n","t","e","d",".">>

docOther ==
    <<"S","o","m","e"," ","v","a","l","u","e",".">>

docBlock ==
    <<"B","l","o","c","k"," ","o","f"," ","v","a","l","u","e","s",".">>

pkgUpper ==
    <<"F","o","o">>

pkgAccent ==
    <<"É","c","o","l","e">>

pkgUnderscore ==
    <<"f","o","o","_","b","a","r">>

pkgDash ==
    <<"f","o","o","-","b","a","r">>

pathFooTest ==
    <<"p","/","f","o","o","_","t","e","s","t",".","g","o">>

pathTestFoo ==
    <<"p","/","t","e","s","t","_","f","o","o",".","g","o">>

cGenerated ==
    <<"/","/"," ","C","o","d","e"," ","g","e","n","e","r","a","t","e","d"," ","b","y"," ","t","o","o","l","."," ","D","O"," ","N","O","T"," ","E","D","I","T",".">>

pkgFooTest ==
    <<"f","o","o","t","e","s","t">>

cDirNakedWhy ==
    <<"/","/","n","o","l","i","n","t"," ","/","/"," ","W","h","y",":"," ","o","k">>

cDirWhy ==
    <<"/","/","n","o","l","i","n","t",":","w","h","y">>

cDirWhyJustified ==
    <<"/","/","n","o","l","i","n","t",":","w","h","y"," ","/","/"," ","W","h","y",":"," ","o","k">>

cDirNoSpaceWhy ==
    <<"/","/","n","o","l","i","n","t",":","d","o","c","u","l","i","n","t","/","/"," ","W","h","y",":"," ","o","k">>

cDirEmptyReason ==
    <<"/","/","n","o","l","i","n","t",":","d","o","c","u","l","i","n","t"," ","/","/"," ","W","h","y",":">>

cDirSpacedWhy ==
    <<"/","/"," ","n","o","l","i","n","t",":"," ","d","o","c","u","l","i","n","t"," ","/","/","W","h","y",":"," ","o","k">>

cPlain ==
    <<"/","/"," ","p","l","a","i","n"," ","c","o","m","m","e","n","t">>

DirectiveTexts ==
    {cDirDoculint, cDirBothWhy, cDirEmpty, cDirEmptyWhy, cDirNaked}

Linters == {lintDoculint, lintTodo}

ReporterFiles == <<fileA, fileB>>

----------------------------------------------------------------------------
(* go/token positions: every file of the file set occupies a range of      *)
(* integer positions, one per line and one more for its end; position 0    *)
(* (token.NoPos) lies in no file.                                          *)

NoPos == 0

FileSize == MaxLine

FileBase(i) == 1 + (i - 1) * (FileSize + 1)

PosOf(i, line) == FileBase(i) + (line - 1)

\* the file set of a pass: the file names, in the order the files were added
Fset(p) == [i \in DOMAIN p.files |-> p.files[i].path]

\* Fset.PositionFor(pos, false): file name and line, or the zero Position
PositionFor(fset, pos) ==
    IF \E i \in DOMAIN fset : FileBase(i) <= pos /\ pos <= FileBase(i) + FileSize
    THEN LET i == CHOOSE j \in DOMAIN fset :
                      FileBase(j) <= pos /\ pos <= FileBase(j) + FileSize
             line == (pos - FileBase(i)) + 1
         IN  [Filename |-> fset[i],
              Line |-> IF line > MaxLine THEN MaxLine ELSE line]
    ELSE [Filename |-> <<>>, Line |-> 0]

AllPos == 0..(FileBase(Len(ReporterFiles)) + FileSize - 1)

----------------------------------------------------------------------------
(* internal/reporter and internal/nolint                                   *)

\* Matches with a window that also reaches the line above the directive
MatchesSymmetric(n, position) ==
    /\ n.filename = position.Filename
    /\ (n.line = position.Line \/ n.line + 1 = position.Line \/ n.line - 1 = position.Line)

\* noLint.Matches
Matches(n, position) ==
    /\ n.filename = position.Filename
    /\ (n.line = position.Line \/ n.line + 1 = position.Line)

\* the directive's linter list of one comment, or <<>> when the comment is
\* no directive
DirectiveLinters(commentText) ==
    LET text0 == TrimSpace(TrimPrefix(commentText, slashes))
        whySlashesIdx == Index(text0, slashes)
        text == IF whySlashesIdx # -1
                THEN TrimSpace(SubSeq(text0, 1, whySlashesIdx))
                ELSE text0
    IN  IF HasPrefix(text, noLintDirective)
        THEN Split(TrimSpace(TrimPrefix(text, noLintDirective)), comma)
        ELSE <<>>

\* NamesLinter that takes any directive with a rule list as naming the linter
NamesAnyLinter(commentText, linter) ==
    LET linters == DirectiveLinters(commentText)
    IN  \E i \in DOMAIN linters : linters[i] # <<>>

\* NamesLinter that takes a directive without rule names as naming every linter
NamesLinterOrNone(commentText, linter) ==
    LET linters == DirectiveLinters(commentText)
    IN  linters = << <<>> >> \/ \E i \in DOMAIN linters : linters[i] = linter

\* does the comment make NewPass record a noLint for linter
NamesLinter(commentText, linter) ==
    LET linters == DirectiveLinters(commentText)
    IN  \E i \in DOMAIN linters : linters[i] = linter

RECURSIVE CommentNoLints(_, _, _)
\* the noLints of one file's comments, in comment order
CommentNoLints(linter, fset, comments) ==
    IF comments = <<>>
    THEN <<>>
    ELSE LET comment == Head(comments)
             position == PositionFor(fset, comment.pos)
             here == IF NamesLinter(comment.text, linter)
                     THEN <<[filename |-> position.Filename, line |-> position.Line]>>
                     ELSE <<>>
         IN  here \o CommentNoLints(linter, fset, Tail(comments))

RECURSIVE FileNoLints(_, _, _)
\* the noLints of all files, in file order
FileNoLints(linter, fset, files) ==
    IF files = <<>>
    THEN <<>>
    ELSE CommentNoLints(linter, fset, Head(files).comments)
             \o FileNoLints(linter, fset, Tail(files))

\* reporter.Warn: the only PassOption
ApplyOpts(opts) == \E i \in DOMAIN opts : opts[i] = "Warn"

\* reporter.NewPass
NewPass(linter, p, opts) ==
    [linter  |-> linter,
     warn    |-> ApplyOpts(opts),
     noLints |-> FileNoLints(linter, Fset(p), p.files)]

\* nolint.PassWithNoLint
PassWithNoLint(linter, p) ==
    [linter  |-> linter,
     warn    |-> FALSE,
     noLints |-> FileNoLints(linter, Fset(p), p.files)]

\* the loop that opens Reportf: some recorded noLint matches the position
Suppressed(w, fset, pos) ==
    \E i \in DOMAIN w.noLints : Matches(w.noLints[i], PositionFor(fset, pos))

\* Reportf that forwards the message without the linter's name
ReportfOutcomeUnnamed(w, fset, pos, format, args) ==
    IF Suppressed(w, fset, pos)
    THEN [kind |-> "dropped"]
    ELSE IF w.warn
    THEN [kind |-> "warned",
          line |-> [position |-> PositionFor(fset, pos), format |-> format,
                    args |-> args, linter |-> w.linter, tag |-> "[WARNING]"]]
    ELSE [kind |-> "reported",
          diag |-> [pos |-> pos, format |-> format, args |-> args]]

\* reporter.Pass.Reportf and nolint.Pass.Reportf: what one call does
ReportfOutcome(w, fset, pos, format, args) ==
    IF Suppressed(w, fset, pos)
    THEN [kind |-> "dropped"]
    ELSE IF w.warn
    THEN [kind |-> "warned",
          line |-> [position |-> PositionFor(fset, pos), format |-> format,
                    args |-> args, linter |-> w.linter, tag |-> "[WARNING]"]]
    ELSE [kind |-> "reported",
          diag |-> [pos |-> pos, format |-> format \o " (%s)",
                    args |-> Append(args, w.linter)]]

----------------------------------------------------------------------------
(* State machine of one reporter pass                                      *)

NoDoc == [nil |-> TRUE, text |-> <<>>]

NoPass == [linter |-> <<>>, warn |-> FALSE, noLints |-> <<>>]

\* doculint's option variables once its init function has registered the flags
FlagDefaults ==
    [minFunLen |-> DefaultMinFunLen, validatePackages |-> TRUE, validateFunctions |-> TRUE,
     validateVariables |-> TRUE, validateConstants |-> TRUE, validateTypes |-> TRUE]

RECURSIVE SortedLines(_)
SortedLines(S) ==
    IF S = {} THEN <<>> ELSE <<SetMin(S)>> \o SortedLines(S \ {SetMin(S)})

\* the comments of a file: one at each of the lines, in line order
CommentsAt(i, lines, textOf) ==
    LET sorted == SortedLines(lines)
    IN  [k \in DOMAIN sorted |->
            [pos |-> PosOf(i, sorted[k]), text |-> textOf[sorted[k]]]]

\* packages of two files, the first of which carries up to MaxComments comments
ReporterPackages ==
    {[name |-> pkgFoo,
      files |-> [i \in DOMAIN ReporterFiles |->
                    [path |-> ReporterFiles[i], package |-> PosOf(i, 1), doc |-> NoDoc,
                     comments |-> IF i = 1 THEN CommentsAt(i, lt[1], lt[2]) ELSE <<>>,
                     decls |-> <<>>]]] :
        lt \in UNION {{<<S, t>> : t \in [S -> DirectiveTexts]} :
                         S \in {T \in SUBSET (1..MaxLine) : Cardinality(T) <= MaxComments}}}

Init ==
    /\ pkg \in ReporterPackages
    /\ cfg = FlagDefaults
    /\ pass = NoPass
    /\ sink = <<>>
    /\ stdout = <<>>
    /\ calls = <<>>
    /\ phase = "input"

\* a linter wraps the analysis pass
DoNewPass(linter, opts) ==
    /\ phase = "input"
    /\ pass' = NewPass(linter, pkg, opts)
    /\ phase' = "ready"
    /\ UNCHANGED <<pkg, cfg, sink, stdout, calls>>

\* a Reportf that clears the table once it has suppressed a violation
DoReportfConsumingDirective(pos, format) ==
    /\ phase = "ready"
    /\ Len(calls) < MaxReports
    /\ LET out == ReportfOutcome(pass, Fset(pkg), pos, format, <<>>)
           kept == {i \in DOMAIN pass.noLints :
                      ~Matches(pass.noLints[i], PositionFor(Fset(pkg), pos))}
       IN  /\ sink' = IF out.kind = "reported" THEN Append(sink, out.diag) ELSE sink
           /\ stdout' = IF out.kind = "warned" THEN Append(stdout, out.line) ELSE stdout
           /\ calls' = Append(calls, [pos |-> pos, format |-> format, args |-> <<>>,
                                      kind |-> out.kind])
           /\ pass' = [pass EXCEPT !.noLints = IF kept = DOMAIN pass.noLints
                                               THEN pass.noLints ELSE <<>>]
    /\ UNCHANGED <<pkg, cfg, phase>>

\* the linter reports a violation through the wrapper
DoReportf(pos, format) ==
    /\ phase = "ready"
    /\ Len(calls) < MaxReports
    /\ LET out == ReportfOutcome(pass, Fset(pkg), pos, format, <<>>)
       IN  /\ sink' = IF out.kind = "reported" THEN Append(sink, out.diag) ELSE sink
           /\ stdout' = IF out.kind = "warned" THEN Append(stdout, out.line) ELSE stdout
           /\ calls' = Append(calls, [pos |-> pos, format |-> format, args |-> <<>>,
                                      kind |-> out.kind])
    /\ UNCHANGED <<pkg, cfg, pass, phase>>

Next ==
    \/ \E linter \in Linters, opts \in {<<>>, <<"Warn">>} : DoNewPass(linter, opts)
    \/ \E pos \in AllPos : DoReportf(pos, "violation")

Spec == Init /\ [][Next]_vars

----------------------------------------------------------------------------
(* internal/doculint                                                       *)

fmtPkgNoDashes == "package \"%s\" should not contain - or _ in name"

fmtPkgLowercase == "package \"%s\" should be all lowercase"

fmtPkgNoComment == "package \"%s\" has no comment associated with it in \"%s.go\""

fmtPkgPrefix == "comment for package \"%s\" should begin with \"%s\""

fmtPkgNoFile == "package \"%s\" has no file with the same name containing package comment"

fmtFuncNoComment == "function \"%s\" has no comment associated with it"

fmtFuncPrefix == "comment for function \"%s\" should begin with \"%s\""

fmtConstBlock == "constant block has no comment associated with it"

fmtConstSeparated == "constants \"%s\" should be separated and each have a comment associated with them"

fmtConstNoComment == "constant \"%s\" has no comment associated with it"

fmtConstPrefix == "comment for constant \"%s\" should begin with \"%s\""

fmtTypeBlock == "type block has no comment associated with it"

fmtTypeNoComment == "type \"%s\" has no comment associated with it"

fmtTypePrefix == "comment for type \"%s\" should begin with \"%s\""

fmtVarBlock == "variable block has no comment associated with it"

fmtVarSeparated == "variables \"%s\" should be separated and each have a comment associated with them"

fmtVarNoComment == "variable \"%s\" has no comment associated with it"

fmtVarPrefix == "comment for variable \"%s\" should begin with \"%s\""

\* one Reportf call made by the analyzer
Report(pos, format, args) == [pos |-> pos, format |-> format, args |-> args]

\* validatePackageName
validatePackageName(pkgName) ==
    (IF ContainsAny(pkgName, {"_", "-"})
     THEN <<Report(NoPos, fmtPkgNoDashes, <<pkgName>>)>>
     ELSE <<>>)
    \o
    (IF pkgName # ToLower(pkgName)
     THEN <<Report(NoPos, fmtPkgLowercase, <<pkgName>>)>>
     ELSE <<>>)

\* validateFuncDecl without the exemption of init
validateFuncDeclInitToo(expr) ==
    IF expr.doc.nil
    THEN <<Report(expr.pos, fmtFuncNoComment, <<expr.name>>)>>
    ELSE IF ~HasPrefix(TrimSpace(expr.doc.text), expr.name)
    THEN <<Report(expr.pos, fmtFuncPrefix, <<expr.name, expr.name>>)>>
    ELSE <<>>

\* validateFuncDecl
validateFuncDecl(expr) ==
    IF expr.name = FuncInit
    THEN <<>>
    ELSE IF expr.doc.nil
    THEN <<Report(expr.pos, fmtFuncNoComment, <<expr.name>>)>>
    ELSE IF ~HasPrefix(TrimSpace(expr.doc.text), expr.name)
    THEN <<Report(expr.pos, fmtFuncPrefix, <<expr.name, expr.name>>)>>
    ELSE <<>>

\* the length test counting one line too many
MeetsMinFunLenOffByOne(start, end, minFunLen) == (end - start + 2) >= minFunLen

\* the length test of the FuncDecl case: the function spans enough lines
MeetsMinFunLen(start, end, minFunLen) == (end - start + 1) >= minFunLen

\* the FuncDecl case of the walk gets as far as measuring the function
FuncDeclMeasured(pkgName, c, expr) ==
    /\ c.validateFunctions
    /\ ~(pkgName = PackageMain /\ expr.name = FuncMain)

\* the FuncDecl case of the walk: the reports it makes
FuncDeclReports(pkgName, c, fset, expr) ==
    IF ~FuncDeclMeasured(pkgName, c, expr)
    THEN <<>>
    ELSE LET start == PositionFor(fset, expr.pos).Line
             end == PositionFor(fset, expr.end).Line
         IN  IF MeetsMinFunLen(start, end, c.minFunLen)
             THEN validateFuncDecl(expr)
             ELSE <<>>

\* the FuncDecl case of the walk: the line it prints about minFunLen
FuncDeclPrints(pkgName, c, expr) ==
    IF FuncDeclMeasured(pkgName, c, expr)
    THEN <<[text |-> "------------>>>>>>>>>>> using minFunLen", value |-> c.minFunLen]>>
    ELSE <<>>

RECURSIVE Join(_, _)
\* strings.Join
Join(elems, sep) ==
    IF elems = <<>>
    THEN <<>>
    ELSE IF Len(elems) = 1
    THEN elems[1]
    ELSE elems[1] \o sep \o Join(Tail(elems), sep)

\* what a validation step yields when it returns normally
Returned(reports) == [reports |-> reports, panicked |-> FALSE]

\* what a validation step yields when it indexes an empty slice: Go panics
\* with "index out of range" and nothing after it runs
Panicked == [reports |-> <<>>, panicked |-> TRUE]

\* a step followed by what comes after it, which runs only if the step returns
Then(first, second) ==
    IF first.panicked
    THEN first
    ELSE [reports |-> first.reports \o second.reports, panicked |-> second.panicked]

\* the report about a parenthesized declaration without a doc comment
BlockReports(expr, format) ==
    IF expr.lparen /\ expr.doc.nil
    THEN <<Report(expr.pos, format, <<>>)>>
    ELSE <<>>

\* one iteration of the loop of validateGenDeclConstants, which takes the
\* doc comment of a block for the doc comment of a member that has none
ConstSpecStepBlockDocInherited(expr, vs) ==
    IF vs.kind # "value"
    THEN Returned(<<>>)
    ELSE IF Len(vs.names) > 1
    THEN Returned(<<Report(vs.pos, fmtConstSeparated, <<Join(vs.names, <<",", " ">>)>>)>>)
    ELSE IF Len(vs.names) = 0
    THEN Panicked
    ELSE LET name == vs.names[1]
             doc == IF ~expr.lparen \/ vs.doc.nil THEN expr.doc ELSE vs.doc
         IN  IF doc.nil
             THEN Returned(<<Report(vs.pos, fmtConstNoComment, <<name>>)>>)
             ELSE IF ~HasPrefix(TrimSpace(doc.text), name)
             THEN Returned(<<Report(vs.pos, fmtConstPrefix, <<name, name>>)>>)
             ELSE Returned(<<>>)

\* one iteration of the loop of validateGenDeclConstants
ConstSpecStep(expr, vs) ==
    IF vs.kind # "value"
    THEN Returned(<<>>)
    ELSE IF Len(vs.names) > 1
    THEN Returned(<<Report(vs.pos, fmtConstSeparated, <<Join(vs.names, <<",", " ">>)>>)>>)
    ELSE IF Len(vs.names) = 0
    THEN Panicked
    ELSE LET name == vs.names[1]
             doc == IF ~expr.lparen THEN expr.doc ELSE vs.doc
         IN  IF doc.nil
             THEN Returned(<<Report(vs.pos, fmtConstNoComment, <<name>>)>>)
             ELSE IF ~HasPrefix(TrimSpace(doc.text), name)
             THEN Returned(<<Report(vs.pos, fmtConstPrefix, <<name, name>>)>>)
             ELSE Returned(<<>>)

RECURSIVE ConstSpecs(_, _)
\* the loop of validateGenDeclConstants over expr.Specs
ConstSpecs(expr, specs) ==
    IF specs = <<>>
    THEN Returned(<<>>)
    ELSE Then(ConstSpecStep(expr, Head(specs)), ConstSpecs(expr, Tail(specs)))

\* validateGenDeclConstants
validateGenDeclConstants(expr) ==
    Then(Returned(BlockReports(expr, fmtConstBlock)), ConstSpecs(expr, expr.specs))

\* one iteration of the loop of validateGenDeclTypes
TypeSpecStep(expr, ts) ==
    IF ts.kind # "type"
    THEN Returned(<<>>)
    ELSE LET name == ts.names[1]
             doc == IF ~expr.lparen THEN expr.doc ELSE ts.doc
         IN  IF doc.nil
             THEN Returned(<<Report(ts.pos, fmtTypeNoComment, <<name>>)>>)
             ELSE IF ~HasPrefix(TrimSpace(doc.text), name)
             THEN Returned(<<Report(ts.pos, fmtTypePrefix, <<name, name>>)>>)
             ELSE Returned(<<>>)

RECURSIVE TypeSpecs(_, _)
\* the loop of validateGenDeclTypes over expr.Specs
TypeSpecs(expr, specs) ==
    IF specs = <<>>
    THEN Returned(<<>>)
    ELSE Then(TypeSpecStep(expr, Head(specs)), TypeSpecs(expr, Tail(specs)))

\* validateGenDeclTypes
validateGenDeclTypes(expr) ==
    Then(Returned(BlockReports(expr, fmtTypeBlock)), TypeSpecs(expr, expr.specs))

\* one iteration of the loop of validateGenDeclVariables, which asks for the
\* separation of several names only when the statement has no doc comment
VarSpecStepSeparatedUnlessDocumented(expr, vs) ==
    IF vs.kind # "value"
    THEN Returned(<<>>)
    ELSE IF Len(vs.names) = 0
    THEN Panicked
    ELSE LET name == vs.names[1]
             doc == IF ~expr.lparen THEN expr.doc ELSE vs.doc
         IN  IF Len(vs.names) > 1 /\ doc.nil
             THEN Returned(<<Report(vs.pos, fmtVarSeparated, <<Join(vs.names, <<",", " ">>)>>)>>)
             ELSE IF doc.nil
             THEN Returned(<<Report(vs.pos, fmtVarNoComment, <<name>>)>>)
             ELSE IF ~HasPrefix(TrimSpace(doc.text), name)
             THEN Returned(<<Report(vs.pos, fmtVarPrefix, <<name, name>>)>>)
             ELSE Returned(<<>>)

\* one iteration of the loop of validateGenDeclVariables
VarSpecStep(expr, vs) ==
    IF vs.kind # "value"
    THEN Returned(<<>>)
    ELSE IF Len(vs.names) > 1
    THEN Returned(<<Report(vs.pos, fmtVarSeparated, <<Join(vs.names, <<",", " ">>)>>)>>)
    ELSE IF Len(vs.names) = 0
    THEN Panicked
    ELSE LET name == vs.names[1]
             doc == IF ~expr.lparen THEN expr.doc ELSE vs.doc
         IN  IF doc.nil
             THEN Returned(<<Report(vs.pos, fmtVarNoComment, <<name>>)>>)
             ELSE IF ~HasPrefix(TrimSpace(doc.text), name)
             THEN Returned(<<Report(vs.pos, fmtVarPrefix, <<name, name>>)>>)
             ELSE Returned(<<>>)

RECURSIVE VarSpecs(_, _)
\* the loop of validateGenDeclVariables over expr.Specs
VarSpecs(expr, specs) ==
    IF specs = <<>>
    THEN Returned(<<>>)
    ELSE Then(VarSpecStep(expr, Head(specs)), VarSpecs(expr, Tail(specs)))

\* validateGenDeclVariables
validateGenDeclVariables(expr) ==
    Then(Returned(BlockReports(expr, fmtVarBlock)), VarSpecs(expr, expr.specs))

\* validateGenDecl that takes every spec of a declaration of another token
\* for a value spec, without the test of the type assertion: the assertion
\* panics on an import spec
validateGenDeclUncheckedSpecs(c, expr) ==
    CASE expr.tok = "const" /\ c.validateConstants -> validateGenDeclConstants(expr)
      [] expr.tok = "type" /\ c.validateTypes -> validateGenDeclTypes(expr)
      [] expr.tok = "var" /\ c.validateVariables -> validateGenDeclVariables(expr)
      [] expr.tok \notin {"const", "type", "var"} -> Panicked
      [] OTHER -> Returned(<<>>)

\* validateGenDecl
validateGenDecl(c, expr) ==
    CASE expr.tok = "const" /\ c.validateConstants -> validateGenDeclConstants(expr)
      [] expr.tok = "type" /\ c.validateTypes -> validateGenDeclTypes(expr)
      [] expr.tok = "var" /\ c.validateVariables -> validateGenDeclVariables(expr)
      [] OTHER -> Returned(<<>>)

\* the children of a declaration that ast.Inspect goes on to visit: the
\* declarations in the body of a function
Children(expr) == IF expr.kind = "func" THEN expr.body ELSE <<>>

\* Reportf calls as steps of a run
ReportSteps(reports) ==
    [k \in DOMAIN reports |-> [kind |-> "Reportf", report |-> reports[k]]]

\* lines printed with fmt.Println as steps of a run
PrintSteps(prints) ==
    [k \in DOMAIN prints |-> [kind |-> "Println", line |-> prints[k]]]

\* what a part of the walk has done: the Reportf calls, the printed lines,
\* both as steps in the order the code takes them, and whether it panicked
Walked(reports, prints, steps, panicked) ==
    [reports |-> reports, prints |-> prints, steps |-> steps, panicked |-> panicked]

\* the FuncDecl case: the line is printed before validateFuncDecl is called
VisitFuncDecl(reports, prints) ==
    Walked(reports, prints, PrintSteps(prints) \o ReportSteps(reports), FALSE)

\* the GenDecl case
VisitGenDecl(validated) ==
    Walked(validated.reports, <<>>, ReportSteps(validated.reports), validated.panicked)

\* the callback of ast.Inspect on one declaration: the FuncDecl case or the
\* GenDecl case
VisitDecl(pkgName, c, fset, expr) ==
    IF expr.kind = "func"
    THEN VisitFuncDecl(FuncDeclReports(pkgName, c, fset, expr),
                       FuncDeclPrints(pkgName, c, expr))
    ELSE VisitGenDecl(validateGenDecl(c, expr))

\* a part of the walk followed by the next part, which runs only if the
\* first returns
ThenWalk(first, second) ==
    IF first.panicked
    THEN first
    ELSE Walked(first.reports \o second.reports, first.prints \o second.prints,
                first.steps \o second.steps, second.panicked)

RECURSIVE InspectFile(_, _, _, _)
\* ast.Inspect over the declarations of one file, depth first in source
\* order: the callback returns true for every node, so that the declarations
\* inside a function body are visited like those of the file
InspectFile(pkgName, c, fset, decls) ==
    IF decls = <<>>
    THEN Walked(<<>>, <<>>, <<>>, FALSE)
    ELSE ThenWalk(ThenWalk(VisitDecl(pkgName, c, fset, Head(decls)),
                           InspectFile(pkgName, c, fset, Children(Head(decls)))),
                  InspectFile(pkgName, c, fset, Tail(decls)))

\* the file name without its directories and without the ".go" suffix
FileBaseName(fset, file) ==
    LET fp == PositionFor(fset, file.package).Filename
        splitPath == Split(fp, pathSeparator)
    IN  TrimSuffix(splitPath[Len(splitPath)], dotGo)

\* the file is the one that should hold the package comment
IsPackageDocFile(pkgName, fset, file) == FileBaseName(fset, file) = pkgName

\* the package comment check that is content with any comment
PackageDocReportsPresenceOnly(pkgName, file) ==
    IF file.doc.nil
    THEN <<Report(NoPos, fmtPkgNoComment, <<pkgName, pkgName>>)>>
    ELSE <<>>

\* the package comment check that reports at the file's package clause
PackageDocReportsAtThePackageClause(pkgName, file) ==
    IF file.doc.nil
    THEN <<Report(file.package, fmtPkgNoComment, <<pkgName, pkgName>>)>>
    ELSE LET expectedPrefix == packagePrefix \o pkgName
         IN  IF ~HasPrefix(TrimSpace(file.doc.text), expectedPrefix)
             THEN <<Report(file.package, fmtPkgPrefix, <<pkgName, expectedPrefix>>)>>
             ELSE <<>>

\* the check of the package comment of the file named after the package
PackageDocReports(pkgName, file) ==
    IF file.doc.nil
    THEN <<Report(NoPos, fmtPkgNoComment, <<pkgName, pkgName>>)>>
    ELSE LET expectedPrefix == packagePrefix \o pkgName
         IN  IF ~HasPrefix(TrimSpace(file.doc.text), expectedPrefix)
             THEN <<Report(NoPos, fmtPkgPrefix, <<pkgName, expectedPrefix>>)>>
             ELSE <<>>

\* one turn of the loop over pass.Files, from the reports about the package
\* comment and the walk of the file on
ScanDoc(acc, seen, docReports, walked) ==
    [has |-> acc.has \/ seen,
     reports |-> acc.reports \o docReports \o walked.reports,
     prints |-> acc.prints \o walked.prints,
     steps |-> acc.steps \o ReportSteps(docReports) \o walked.steps,
     panicked |-> walked.panicked]

\* one turn of the loop over pass.Files: skipped says that the package is
\* main or that packages are not validated
ScanFile(pkgName, file, acc, skipped, isDocFile, walked) ==
    ScanDoc(acc, skipped \/ isDocFile,
            IF ~skipped /\ isDocFile THEN PackageDocReports(pkgName, file) ELSE <<>>,
            walked)

RECURSIVE ScanFiles(_, _, _, _, _)
\* the loop over pass.Files; acc carries packageHasFileWithSameName and the
\* reports and prints made so far
ScanFiles(pkgName, c, fset, files, acc) ==
    IF files = <<>> \/ acc.panicked
    THEN acc
    ELSE ScanFiles(pkgName, c, fset, Tail(files),
                   ScanFile(pkgName, Head(files), acc,
                            pkgName = PackageMain \/ ~c.validatePackages,
                            IsPackageDocFile(pkgName, fset, Head(files)),
                            InspectFile(pkgName, c, fset, Head(files).decls)))

\* the end of doculint: the package without a file for its comment
DoculintEnd(pkgName, scanned, missing) ==
    [reports |-> scanned.reports \o missing,
     prints |-> scanned.prints,
     steps |-> scanned.steps \o ReportSteps(missing),
     panicked |-> scanned.panicked]

\* doculint behind the loop over pass.Files
DoculintScanned(pkgName, scanned) ==
    DoculintEnd(pkgName, scanned,
                IF ~scanned.panicked /\ ~scanned.has
                THEN <<Report(NoPos, fmtPkgNoFile, <<pkgName>>)>>
                ELSE <<>>)

\* doculint from validatePackageName on
DoculintNamed(p, c, named) ==
    DoculintScanned(p.name,
                    ScanFiles(p.name, c, Fset(p), p.files,
                              [has |-> FALSE, reports |-> named, prints |-> <<>>,
                               steps |-> ReportSteps(named), panicked |-> FALSE]))

\* doculint: the Reportf calls it makes on the wrapper, what it prints, these
\* as steps in order, and whether it ends in a panic instead of returning
doculint(p, c) == DoculintNamed(p, c, validatePackageName(p.name))

----------------------------------------------------------------------------
(* State machine of one run of the doculint analyzer                       *)

DocOf(text) == [nil |-> FALSE, text |-> text]

FuncNames == {fnFoo, FuncInit, FuncMain}

\* the doc comments tried on a function named n; for foo they are: none,
\* "foo sure is a function.", "foo: Does a foo thing.",
\* "fooBar: Does a foobar thing." and "This function is foo."
DocsFor(n) ==
    {NoDoc,
     DocOf(n \o sfxGood),
     DocOf(n \o midColon \o n \o sfxThing),
     DocOf(n \o midBar \o n \o sfxBarThing),
     DocOf(pfxOther \o n \o sfxDot)}

\* the function declarations of file i that start at line from or later
FuncsFrom(i, from) ==
    UNION {{[kind |-> "func", name |-> n, doc |-> d,
             pos |-> PosOf(i, se[1]), end |-> PosOf(i, se[2]), body |-> <<>>] :
                d \in DocsFor(n)} :
              <<n, se>> \in FuncNames \X {x \in (from..MaxLine) \X (from..MaxLine) : x[1] <= x[2]}}

RECURSIVE DeclLists(_, _, _)
\* up to k function declarations of file i, one after the other
DeclLists(i, from, k) ==
    IF k = 0 \/ from > MaxLine
    THEN {<<>>}
    ELSE {<<>>} \cup
         UNION {{<<f>> \o rest :
                    rest \in DeclLists(i, (f.end - FileBase(i)) + 2, k - 1)} :
                   f \in FuncsFrom(i, from)}

\* packages of one documented file that differ in their functions
FunctionPackages ==
    {[name |-> n,
      files |-> <<[path |-> pathFoo, package |-> PosOf(1, 1), doc |-> DocOf(pkgDocGood),
                   comments |-> <<>>, decls |-> decls]>>] :
        n \in {pkgFoo, PackageMain}, decls \in DeclLists(1, 1, MaxDecls)}

FunctionConfigs ==
    [minFunLen : 0..(MaxLine + 1), validatePackages : {TRUE}, validateFunctions : BOOLEAN,
     validateVariables : {TRUE}, validateConstants : {TRUE}, validateTypes : {TRUE}]

PackagePaths == {pathFoo, pathDoc, pathBar}

\* the files that can stand at index i of a package, named by one of paths
PackageFiles(i, paths) ==
    [path : paths, package : {PosOf(i, 1)},
     doc : {NoDoc, DocOf(pkgDocGood), DocOf(pkgDocOther)},
     comments : {<<>>, <<[pos |-> PosOf(i, 1), text |-> cDirDoculint]>>},
     decls : {<<>>}]

RECURSIVE FileLists(_, _, _)
\* up to k files with distinct names, the first of them at index i
FileLists(i, used, k) ==
    IF k = 0
    THEN {<<>>}
    ELSE {<<>>} \cup
         UNION {{<<f>> \o rest : rest \in FileLists(i + 1, used \cup {f.path}, k - 1)} :
                   f \in PackageFiles(i, PackagePaths \ used)}

\* packages without functions that differ in their files and package comments
FilePackages ==
    {[name |-> n, files |-> files] :
        n \in {pkgFoo, PackageMain}, files \in FileLists(1, {}, MaxFiles) \ {<<>>}}

FileConfigs ==
    [minFunLen : {DefaultMinFunLen}, validatePackages : BOOLEAN, validateFunctions : {TRUE},
     validateVariables : {TRUE}, validateConstants : {TRUE}, validateTypes : {TRUE}]

\* the doc comments tried on a declaration of name n: none, "n is
\* documented." and "Some value."
DeclDocsFor(n) == {NoDoc, DocOf(n \o sfxDocumented), DocOf(docOther)}

\* a value spec (of a constant or variable declaration) or a type spec
SpecOf(kind, names, doc, type, pos) ==
    [kind |-> kind, names |-> names, doc |-> doc, type |-> type, pos |-> pos]

\* a constant, type or variable declaration
GenDeclOf(tok, lparen, doc, pos, specs) ==
    [kind |-> "gen", tok |-> tok, lparen |-> lparen, doc |-> doc, pos |-> pos,
     specs |-> specs]

\* the members a parenthesized declaration may hold at a line of file i: for
\* constants and variables a spec of two names and a spec of one name; for
\* constants with or without an explicit type
MemberSpecs(tok, i, line) ==
    LET pos == PosOf(i, line)
    IN  CASE tok = "const" ->
               {SpecOf("value", <<idA, idB>>, d, <<>>, pos) :
                        d \in {NoDoc, DocOf(idA \o sfxDocumented)}}
               \cup {SpecOf("value", <<idA>>, d, t, pos) :
                        d \in DeclDocsFor(idA), t \in {<<>>, typT, typU}}
          [] tok = "var" ->
               {SpecOf("value", <<idA, idB>>, d, <<>>, pos) :
                        d \in {NoDoc, DocOf(idA \o sfxDocumented)}}
               \cup {SpecOf("value", <<idA>>, d, <<>>, pos) : d \in DeclDocsFor(idA)}
               \cup {SpecOf("value", <<idBlank>>, d, <<>>, pos) :
                        d \in {NoDoc, DocOf(docOther)}}
          [] OTHER ->
               {SpecOf("type", <<typT>>, d, <<>>, pos) : d \in DeclDocsFor(typT)}

RECURSIVE MemberLists(_, _, _)
\* the members of a parenthesized declaration, one per line from line from on
MemberLists(tok, i, from) ==
    IF from > MaxLine
    THEN {<<>>}
    ELSE {<<>>} \cup
         UNION {{<<m>> \o rest : rest \in MemberLists(tok, i, from + 1)} :
                   m \in MemberSpecs(tok, i, from)}

\* the parenthesized declarations that open at a line of file i
Blocks(i, line) ==
    UNION {{GenDeclOf(tok, TRUE, d, PosOf(i, line), specs) :
               d \in {NoDoc, DocOf(docBlock)},
               specs \in MemberLists(tok, i, line + 1)} :
              tok \in {"const", "type", "var"}}

\* the declarations without parentheses at a line of file i; the parser
\* attaches their doc comment to the declaration, never to the spec
StandaloneDecls(i, line) ==
    LET pos == PosOf(i, line)
    IN  {GenDeclOf("const", FALSE, d, pos, <<SpecOf("value", names, NoDoc, <<>>, pos)>>) :
            names \in {<<idA>>, <<idA, idB>>}, d \in DeclDocsFor(idA)}
        \cup
        {GenDeclOf("var", FALSE, d, pos, <<SpecOf("value", names, NoDoc, <<>>, pos)>>) :
            names \in {<<idA>>, <<idA, idB>>}, d \in DeclDocsFor(idA)}
        \cup
        {GenDeclOf("var", FALSE, d, pos, <<SpecOf("value", <<idBlank>>, NoDoc, <<>>, pos)>>) :
            d \in {NoDoc, DocOf(docOther)}}
        \cup
        {GenDeclOf("type", FALSE, d, pos, <<SpecOf("type", <<typT>>, NoDoc, <<>>, pos)>>) :
            d \in DeclDocsFor(typT)}

GenDecls(i, line) == StandaloneDecls(i, line) \cup Blocks(i, line)

\* a documented declaration "type n ..." without parentheses
TypeDeclOf(n, i, line) ==
    GenDeclOf("type", FALSE, DocOf(n \o sfxDocumented), PosOf(i, line),
              <<SpecOf("type", <<n>>, NoDoc, <<>>, PosOf(i, line))>>)

\* an import declaration without parentheses: its import spec has no name
ImportDeclOf(i, line) ==
    GenDeclOf("import", FALSE, NoDoc, PosOf(i, line),
              <<SpecOf("import", <<>>, NoDoc, <<>>, PosOf(i, line))>>)

\* the declarations tried in front of another one: a type declaration or an
\* import declaration
LeadingDecls(i, line) ==
    {TypeDeclOf(typT, i, line), TypeDeclOf(typU, i, line), ImportDeclOf(i, line)}

\* a documented function foo of file i that spans all lines and declares g
\* in its body
FuncAround(i, g) ==
    [kind |-> "func", name |-> fnFoo, doc |-> DocOf(fnFoo \o sfxGood),
     pos |-> PosOf(i, 1), end |-> PosOf(i, MaxLine), body |-> <<g>>]

\* the declarations of a file: one declaration, two in a row, or one inside
\* the body of a function
DeclFileLists(i) ==
    {<<g>> : g \in GenDecls(i, 1)}
    \cup {<<g1, g2>> : g1 \in LeadingDecls(i, 1), g2 \in GenDecls(i, 2)}
    \cup {<<FuncAround(i, g)>> : g \in GenDecls(i, 2)}

\* a second file bar.go that holds one undocumented constant
UndocumentedFile(i) ==
    [path |-> pathBar, package |-> PosOf(i, 1), doc |-> NoDoc, comments |-> <<>>,
     decls |-> <<GenDeclOf("const", FALSE, NoDoc, PosOf(i, 1),
                           <<SpecOf("value", <<idA>>, NoDoc, <<>>, PosOf(i, 1))>>)>>]

\* packages of a documented file foo.go that differ in its declarations,
\* alone or followed by bar.go
DeclPackages ==
    {[name |-> pkgFoo,
      files |-> <<[path |-> pathFoo, package |-> PosOf(1, 1), doc |-> DocOf(pkgDocGood),
                   comments |-> <<>>, decls |-> decls]>> \o more] :
        decls \in DeclFileLists(1), more \in {<<>>, <<UndocumentedFile(2)>>}}

\* all declaration rules on, or all but one of them
DeclConfigs ==
    {[minFunLen |-> 1, validatePackages |-> TRUE, validateFunctions |-> TRUE,
      validateVariables |-> off # "var", validateConstants |-> off # "const",
      validateTypes |-> off # "type"] : off \in {"none", "const", "type", "var"}}

\* an undocumented constant A at a line of file i
UndocumentedConst(i, line) ==
    GenDeclOf("const", FALSE, NoDoc, PosOf(i, line),
              <<SpecOf("value", <<idA>>, NoDoc, <<>>, PosOf(i, line))>>)

\* an undocumented function foo on one line of file i
UndocumentedFunc(i, line) ==
    [kind |-> "func", name |-> fnFoo, doc |-> NoDoc,
     pos |-> PosOf(i, line), end |-> PosOf(i, line), body |-> <<>>]

\* files without package comment that hold one undocumented declaration and
\* that are test files by their name, generated files by their first
\* comment, or neither
UndocumentedFiles(i, paths) ==
    [path : paths, package : {PosOf(i, 1)}, doc : {NoDoc},
     comments : {<<>>, <<[pos |-> PosOf(i, 1), text |-> cGenerated]>>},
     decls : {<<UndocumentedConst(i, 2)>>, <<UndocumentedFunc(i, 2)>>}]

\* package foo of one such file named foo.go, or of a documented foo.go
\* followed by one such file
MarkedFilePackages ==
    {[name |-> pkgFoo, files |-> <<f>>] : f \in UndocumentedFiles(1, {pathFoo})}
    \cup
    {[name |-> pkgFoo,
      files |-> <<[path |-> pathFoo, package |-> PosOf(1, 1), doc |-> DocOf(pkgDocGood),
                   comments |-> <<>>, decls |-> <<>>], f>>] :
        f \in UndocumentedFiles(2, {pathBar, pathFooTest, pathTestFoo})}

\* the package names tried on the naming rule; a name with a dash can only
\* come from a driver that builds the package itself
PackageNames == {pkgFoo, pkgUpper, pkgAccent, pkgUnderscore, pkgDash, PackageMain}

\* packages of one file foo.go that differ in their name
NamedPackages ==
    {[name |-> n,
      files |-> <<[path |-> pathFoo, package |-> PosOf(1, 1), doc |-> d,
                   comments |-> c, decls |-> <<>>]>>] :
        n \in PackageNames,
        d \in {NoDoc, DocOf(pkgDocGood)},
        c \in {<<>>, <<[pos |-> PosOf(1, 1), text |-> cDirDoculint]>>}}

InitDoculint ==
    /\ \/ pkg \in FunctionPackages /\ cfg \in FunctionConfigs
       \/ pkg \in FilePackages /\ cfg \in FileConfigs
       \/ pkg \in DeclPackages /\ cfg \in DeclConfigs
       \/ pkg \in MarkedFilePackages /\ cfg \in DeclConfigs
       \/ pkg \in NamedPackages /\ cfg \in FileConfigs
    /\ pass = NoPass
    /\ sink = <<>>
    /\ stdout = <<>>
    /\ calls = <<>>
    /\ phase = "input"

RECURSIVE Forwarded(_)
\* the diagnostics among the outcomes of a sequence of Reportf calls
Forwarded(outs) ==
    IF outs = <<>>
    THEN <<>>
    ELSE (IF Head(outs).kind = "reported" THEN <<Head(outs).diag>> ELSE <<>>)
             \o Forwarded(Tail(outs))

RECURSIVE Warned(_)
\* the warning lines among the outcomes of a sequence of Reportf calls
Warned(outs) ==
    IF outs = <<>>
    THEN <<>>
    ELSE (IF Head(outs).kind = "warned" THEN <<Head(outs).line>> ELSE <<>>)
             \o Warned(Tail(outs))

\* the outcomes of the Reportf calls of a run on the wrapper w
Outcomes(w, fset, reports) ==
    [k \in DOMAIN reports |->
        ReportfOutcome(w, fset, reports[k].pos, reports[k].format, reports[k].args)]

\* the Reportf calls of a run with their outcomes
CallsOf(reports, outs) ==
    [k \in DOMAIN reports |->
        [pos |-> reports[k].pos, format |-> reports[k].format,
         args |-> reports[k].args, kind |-> outs[k].kind]]

\* what a run of doculint leaves behind: the wrapper, the Reportf calls with
\* their outcomes, the diagnostics, the lines printed and how the run ended
DoculintDone(run, w, outs) ==
    /\ pass' = w
    /\ calls' = CallsOf(run.reports, outs)
    /\ sink' = Forwarded(outs)
    /\ stdout' = run.prints
    /\ phase' = IF run.panicked THEN "panicked" ELSE "done"

\* a run of doculint on the wrapper w
DoculintOn(run, w) == DoculintDone(run, w, Outcomes(w, Fset(pkg), run.reports))

\* the analysis driver runs doculint on the package
DoDoculint ==
    /\ phase = "input"
    /\ DoculintOn(doculint(pkg, cfg), PassWithNoLint(lintDoculint, pkg))
    /\ UNCHANGED <<pkg, cfg>>

NextDoculint == DoDoculint

SpecDoculint == InitDoculint /\ [][NextDoculint]_vars

----------------------------------------------------------------------------
(* internal/common                                                         *)

\* strings.Contains
Contains(s, substr) == Index(s, substr) # -1

\* common.IsGenerated
IsGenerated(file) ==
    \E c \in DOMAIN file.comments :
        Contains(ToLower(file.comments[c].text), codeGenerated)

\* common.IsTestFile
IsTestFile(fset, file) ==
    LET fn == TrimSuffix(PositionFor(fset, file.package).Filename, dotGo)
    IN  HasPrefix(fn, testFilePrefix) \/ HasSuffix(fn, testFileSuffix)

\* common.IsTestPackage
IsTestPackage(pkgName) == HasSuffix(pkgName, testPackageSuffix)

----------------------------------------------------------------------------
(* internal/why                                                            *)

fmtWhyNaked == "nolint directive must contain the specific linters it is nolinting against"

fmtWhyMissing == "nolint comment must immediately be followed by // Why: <reason> on the same line."

\* the characters of the class \s of Go regular expressions
reSpace == {"\t", "\n", "\f", "\r", " "}

\* the characters of the class [\w\-,]
reRuleChars ==
    {upperCase[i] : i \in DOMAIN upperCase} \cup {lowerCase[i] : i \in DOMAIN lowerCase}
    \cup {"0", "1", "2", "3", "4", "5", "6", "7", "8", "9", "_", "-", ","}

\* the length of the longest prefix of s made of characters of the class
SpanLen(s, class) ==
    LET other == {i \in 1..Len(s) : s[i] \notin class}
    IN  IF other = {} THEN Len(s) ELSE SetMin(other) - 1

\* s without its first n characters
Drop(s, n) == SubSeq(s, n + 1, Len(s))

\* s, to its end, matches whyPattern: //\s?Why:.+
MatchWhyPattern(s) ==
    /\ HasPrefix(s, slashes)
    /\ LET a == Drop(s, 2)
           b == IF a # <<>> /\ a[1] \in reSpace THEN Drop(a, 1) ELSE a
           reason == Drop(b, Len(whyToken))
       IN  /\ HasPrefix(b, whyToken)
           /\ reason # <<>>
           /\ \A i \in DOMAIN reason : reason[i] # "\n"

\* reNoLintWhy.MatchString: ^nolint(?::\s?[\w\-,]+)?\s+//\s?Why:.+$
MatchNoLintWhy(text) ==
    /\ HasPrefix(text, noLintToken)
    /\ LET r == Drop(text, Len(noLintToken))
           g == Drop(r, 1)
           list == IF g # <<>> /\ g[1] \in reSpace THEN Drop(g, 1) ELSE g
           grouped == r # <<>> /\ r[1] = ":"
           rest == IF grouped THEN Drop(list, SpanLen(list, reRuleChars)) ELSE r
           spaces == SpanLen(rest, reSpace)
       IN  /\ grouped => SpanLen(list, reRuleChars) >= 1
           /\ spaces >= 1
           /\ MatchWhyPattern(Drop(rest, spaces))

\* reNoLintNaked.MatchString: ^nolint\s*(?://\s?Why:.+)?$
MatchNoLintNaked(text) ==
    /\ HasPrefix(text, noLintToken)
    /\ LET r == Drop(text, Len(noLintToken))
           rest == Drop(r, SpanLen(r, reSpace))
       IN  rest = <<>> \/ MatchWhyPattern(rest)

\* the body of the loop over the comments of a file: the reports for one comment
WhyCommentReports(comment) ==
    LET text == TrimSpace(TrimPrefix(comment.text, slashes))
    IN  IF HasPrefix(text, noLintToken)
        THEN (IF MatchNoLintNaked(text)
              THEN <<Report(comment.pos, fmtWhyNaked, <<>>)>>
              ELSE <<>>)
             \o
             (IF ~MatchNoLintWhy(text)
              THEN <<Report(comment.pos, fmtWhyMissing, <<>>)>>
              ELSE <<>>)
        ELSE <<>>

RECURSIVE WhyComments(_)
\* the loop over the comments of a file
WhyComments(comments) ==
    IF comments = <<>>
    THEN <<>>
    ELSE WhyCommentReports(Head(comments)) \o WhyComments(Tail(comments))

RECURSIVE WhyFiles(_, _)
\* the loop over pass.Files, which leaves out generated files and test files
WhyFiles(fset, files) ==
    IF files = <<>>
    THEN <<>>
    ELSE (IF IsGenerated(Head(files)) \/ IsTestFile(fset, Head(files))
          THEN <<>>
          ELSE WhyComments(Head(files).comments))
         \o WhyFiles(fset, Tail(files))

\* why: whether it wraps the pass, with which options, and the Reportf
\* calls it makes on the wrapper
why(p, warn) ==
    IF IsTestPackage(p.name)
    THEN [wrapped |-> FALSE, opts |-> <<>>, reports |-> <<>>]
    ELSE [wrapped |-> TRUE,
          opts |-> IF warn THEN <<"Warn">> ELSE <<>>,
          reports |-> WhyFiles(Fset(p), p.files)]

----------------------------------------------------------------------------
(* State machine of one run of the why analyzer                            *)

\* the comment texts tried on the why analyzer
WhyTexts ==
    {cDirDoculint, cDirBothWhy, cDirSpacedWhy, cDirEmpty, cDirEmptyWhy, cDirNaked,
     cDirNakedWhy, cDirWhy, cDirWhyJustified, cDirNoSpaceWhy, cDirEmptyReason,
     cPlain, cGenerated}

\* packages of one file with up to MaxComments comments
WhyPackages ==
    {[name |-> n,
      files |-> <<[path |-> path, package |-> PosOf(1, 1), doc |-> NoDoc,
                   comments |-> CommentsAt(1, lt[1], lt[2]), decls |-> <<>>]>>] :
        n \in {pkgFoo, pkgFooTest},
        path \in {pathFoo, pathFooTest},
        lt \in UNION {{<<S, t>> : t \in [S -> WhyTexts]} :
                         S \in {T \in SUBSET (1..MaxLine) : Cardinality(T) <= MaxComments}}}

\* the warn flag of the why analyzer
WhyConfigs == [warn : BOOLEAN]

InitWhy ==
    /\ pkg \in WhyPackages
    /\ cfg \in WhyConfigs
    /\ pass = NoPass
    /\ sink = <<>>
    /\ stdout = <<>>
    /\ calls = <<>>
    /\ phase = "input"

\* what a run leaves behind that always returns: the wrapper, the Reportf
\* calls with their outcomes, the diagnostics and the warnings
RunDone(run, w, outs) ==
    /\ pass' = w
    /\ calls' = CallsOf(run.reports, outs)
    /\ sink' = Forwarded(outs)
    /\ stdout' = Warned(outs)
    /\ phase' = "done"

\* a run on the wrapper w
RunOn(run, w) == RunDone(run, w, Outcomes(w, Fset(pkg), run.reports))

\* a run of the linter that wraps the pass unless the package is a test
\* package
RunOf(linter, run) ==
    RunOn(run, IF run.wrapped THEN NewPass(linter, pkg, run.opts) ELSE NoPass)

\* the analysis driver runs why on the package
DoWhy ==
    /\ phase = "input"
    /\ RunOf(lintWhy, why(pkg, cfg.warn))
    /\ UNCHANGED <<pkg, cfg>>

NextWhy == DoWhy

SpecWhy == InitWhy /\ [][NextWhy]_vars

----------------------------------------------------------------------------
(* What the directives of the package say, read off the comment texts      *)
(* independently of the parsing done by NewPass                            *)

\* the rules a comment text lists after the directive token
ListedRules(text) ==
    CASE text = cDirDoculint -> {lintDoculint}
      [] text = cDirBothWhy -> {lintDoculint, lintTodo}
      [] OTHER -> {}

\* the comments of the package, each with its file name and line
AllComments ==
    UNION {{[file |-> pkg.files[i].path,
             line |-> PositionFor(Fset(pkg), pkg.files[i].comments[j].pos).Line,
             text |-> pkg.files[i].comments[j].text] :
                j \in DOMAIN pkg.files[i].comments} : i \in DOMAIN pkg.files}

\* the comment texts found at line l of the file named F
TextsAt(F, l) == {c.text : c \in {d \in AllComments : d.file = F /\ d.line = l}}

\* a directive listing rule R stands at line l of the file named F
DirectiveFor(R, F, l) ==
    \E c \in AllComments : c.file = F /\ c.line = l /\ R \in ListedRules(c.text)

\* file and line of the k-th Reportf call
CallPosition(k) == PositionFor(Fset(pkg), calls[k].pos)

\* the sites (file name, line) of the directives that list rule R
SitesFor(R) ==
    {<<c.file, c.line>> : c \in {d \in AllComments : R \in ListedRules(d.text)}}

\* a directive for the pass's rule stands on the line of call k or the line above
Covered(k) ==
    LET own == SitesFor(pass.linter)
        q == CallPosition(k)
    IN  <<q.Filename, q.Line>> \in own \/ <<q.Filename, q.Line - 1>> \in own

----------------------------------------------------------------------------
(* Claims about the suppression engine                                     *)

\* C1: a violation of rule R reported at line p of file F is dropped whenever
\* a directive naming R stands at line p or p-1 of F; a directive standing
\* only at line p+1 does not suppress it.
C1_DirectiveCoversOwnAndNextLine ==
    LET own == SitesFor(pass.linter)
    IN  \A k \in DOMAIN calls :
            LET q == CallPosition(k)
                covered == \/ <<q.Filename, q.Line>> \in own
                           \/ <<q.Filename, q.Line - 1>> \in own
            IN  /\ covered => calls[k].kind = "dropped"
                /\ (<<q.Filename, q.Line + 1>> \in own /\ ~covered)
                       => calls[k].kind # "dropped"

\* C1 witness: one call dropped by a directive on the line above only, and
\* one call let through although a directive stands on the line below.
C1_Witness ==
    /\ \E k \in DOMAIN calls :
          /\ calls[k].kind = "dropped"
          /\ ~DirectiveFor(pass.linter, CallPosition(k).Filename, CallPosition(k).Line)
          /\ DirectiveFor(pass.linter, CallPosition(k).Filename, CallPosition(k).Line - 1)
    /\ \E k \in DOMAIN calls :
          /\ calls[k].kind # "dropped"
          /\ DirectiveFor(pass.linter, CallPosition(k).Filename, CallPosition(k).Line + 1)

\* C2: the table built for a rule holds entries only from directives that
\* list that rule, and a call is dropped only when such a directive stands in
\* the very file of the reported position: neither another rule's directive
\* nor a directive in another file suppresses, even on the same line number.
C2_NoCrossRuleNoCrossFile ==
    phase = "ready" =>
        LET own == SitesFor(pass.linter)
        IN  /\ \A i \in DOMAIN pass.noLints :
                  <<pass.noLints[i].filename, pass.noLints[i].line>> \in own
            /\ \A k \in DOMAIN calls :
                  calls[k].kind = "dropped" =>
                     \E site \in own : site[1] = CallPosition(k).Filename

\* C2 witness: a call in one file was let through although the pass's own
\* rule has a directive on the same line number of another file, where a call
\* on that line was dropped.
C2_Witness ==
    \E k \in DOMAIN calls :
        /\ calls[k].kind # "dropped"
        /\ \E j \in DOMAIN calls :
              /\ calls[j].kind = "dropped"
              /\ CallPosition(j).Filename # CallPosition(k).Filename
              /\ CallPosition(j).Line = CallPosition(k).Line
              /\ DirectiveFor(pass.linter, CallPosition(j).Filename, CallPosition(j).Line)

\* the directive comments whose rule list is empty or absent
EmptyListTexts == {cDirEmpty, cDirEmptyWhy, cDirNaked}

\* C3: a directive whose rule list is empty or absent records no suppression:
\* no table entry stems from it, and a violation on its line or on the next
\* line is not dropped on its account.
C3_EmptyRuleListSuppressesNothing ==
    phase = "ready" =>
        LET empties == {<<c.file, c.line>> :
                           c \in {d \in AllComments : d.text \in EmptyListTexts}}
            others == {<<c.file, c.line>> :
                           c \in {d \in AllComments : d.text \notin EmptyListTexts}}
        IN  /\ \A i \in DOMAIN pass.noLints :
                  <<pass.noLints[i].filename, pass.noLints[i].line>> \in others
            /\ \A k \in DOMAIN calls :
                  LET q == CallPosition(k)
                  IN  (/\ {<<q.Filename, q.Line>>, <<q.Filename, q.Line - 1>>} \cap empties # {}
                       /\ {<<q.Filename, q.Line>>, <<q.Filename, q.Line - 1>>} \cap others = {})
                         => calls[k].kind # "dropped"

\* C3 witness: with a directive that has no rule list in the file, the
\* violation on its line and the violation on the next line were both let
\* through.
C3_Witness ==
    \E j, k \in DOMAIN calls :
        /\ calls[j].kind # "dropped" /\ calls[k].kind # "dropped"
        /\ CallPosition(k).Filename = CallPosition(j).Filename
        /\ CallPosition(k).Line = CallPosition(j).Line + 1
        /\ TextsAt(CallPosition(j).Filename, CallPosition(j).Line) \cap EmptyListTexts # {}

\* C4: without the warn option, a Reportf call whose position no directive
\* covers hands exactly one diagnostic to the underlying sink, at the same
\* position, with the rule's name appended to the message, and prints no
\* warning; a call whose position is covered hands over nothing.
C4_ForwardExactlyOnceWithRuleName ==
    [][(phase = "ready" /\ ~pass.warn /\ calls' # calls) =>
          LET k == Len(calls')
              c == calls'[k]
              position == PositionFor(Fset(pkg), c.pos)
              own == SitesFor(pass.linter)
              covered == \/ <<position.Filename, position.Line>> \in own
                         \/ <<position.Filename, position.Line - 1>> \in own
          IN  /\ stdout' = stdout
              /\ IF covered
                 THEN sink' = sink
                 ELSE sink' = Append(sink, [pos |-> c.pos,
                                            format |-> c.format \o " (%s)",
                                            args |-> <<pass.linter>>])]_vars

\* C4 witness: on a pass without warn, one call was dropped and one call
\* produced the single diagnostic of the sink.
C4_Witness ==
    /\ phase = "ready" /\ ~pass.warn
    /\ Len(calls) = 2 /\ Len(sink) = 1
    /\ \E k \in DOMAIN calls : calls[k].kind = "dropped"
    /\ \E k \in DOMAIN calls : calls[k].kind = "reported" /\ sink[1].pos = calls[k].pos

\* C5: with the warn option, a violation that no directive covers is still
\* handed to the underlying sink, as one record carrying the rule name.
C5_WarnedViolationReachesSink ==
    (phase = "ready" /\ pass.warn) =>
        \A k \in DOMAIN calls :
            ~Covered(k) =>
                \E j \in DOMAIN sink :
                    /\ sink[j].pos = calls[k].pos
                    /\ sink[j].args = <<pass.linter>>

----------------------------------------------------------------------------
(* What the package under analysis contains, read off the input            *)

\* the function declarations of the package
AllFuncs ==
    UNION {{pkg.files[i].decls[j] :
               j \in {k \in DOMAIN pkg.files[i].decls : pkg.files[i].decls[k].kind = "func"}} :
              i \in DOMAIN pkg.files}

\* the number of lines a function spans
SpanOf(d) ==
    PositionFor(Fset(pkg), d.end).Line - PositionFor(Fset(pkg), d.pos).Line + 1

FuncDocFormats == {fmtFuncNoComment, fmtFuncPrefix}

\* the function doc-comment violations the analyzer emitted for function d
FuncViolations(d) ==
    {k \in DOMAIN calls : calls[k].pos = d.pos /\ calls[k].format \in FuncDocFormats}

\* the function is neither init nor the main function of package main
OrdinaryFunc(d) ==
    /\ d.name # FuncInit
    /\ ~(pkg.name = PackageMain /\ d.name = FuncMain)

PkgDocFormats == {fmtPkgNoComment, fmtPkgPrefix}

\* the package-documentation violations that reached the output
PkgDocViolations ==
    {k \in DOMAIN calls : calls[k].format \in PkgDocFormats /\ calls[k].kind = "reported"}

\* the files of the package that have the given path
FilesNamed(path) == {pkg.files[i] : i \in {j \in DOMAIN pkg.files : pkg.files[j].path = path}}

----------------------------------------------------------------------------
(* Claims about the documentation analyzer                                 *)

\* C6: a function whose span (end line - start line + 1) is strictly below
\* the minimum function length gets no function doc-comment violation,
\* whatever its doc comment; a function whose span equals the minimum is
\* validated, so that it gets one violation when it has no doc comment.
C6_ShortFunctionsAreExempt ==
    phase = "done" =>
        \A d \in AllFuncs :
            /\ SpanOf(d) < cfg.minFunLen => FuncViolations(d) = {}
            /\ (/\ SpanOf(d) = cfg.minFunLen
                /\ cfg.validateFunctions
                /\ OrdinaryFunc(d)
                /\ d.doc.nil)
                   => Cardinality(FuncViolations(d)) = 1

\* C6 witness: function validation is on and an undocumented function foo,
\* one line shorter than the minimum, went through the analyzer unreported.
C6_Witness ==
    /\ phase = "done" /\ cfg.validateFunctions
    /\ \E d \in AllFuncs :
          /\ d.name = fnFoo /\ d.doc.nil
          /\ SpanOf(d) = cfg.minFunLen - 1
          /\ FuncViolations(d) = {}

\* C7: a function other than init and main-of-package-main whose span is at
\* or above the minimum gets exactly one violation when its doc comment is
\* absent or does not begin with the function name followed by a space, and
\* none when the doc begins with "<name> ".
C7_FuncDocStartsWithNameAndSpace ==
    phase = "done" =>
        \A d \in AllFuncs :
            (cfg.validateFunctions /\ OrdinaryFunc(d) /\ SpanOf(d) >= cfg.minFunLen) =>
                IF d.doc.nil \/ ~HasPrefix(d.doc.text, d.name \o <<" ">>)
                THEN Cardinality(FuncViolations(d)) = 1
                ELSE FuncViolations(d) = {}

\* C8: no function doc-comment violation is emitted for a function named init,
\* in any package, nor for function main of package main, whatever its length
\* and its doc comment.
C8_InitAndMainAreExempt ==
    phase = "done" =>
        \A d \in AllFuncs :
            ~OrdinaryFunc(d) => \A k \in DOMAIN calls : calls[k].pos # d.pos

\* C8 witness: function validation is on and an undocumented init function of
\* a package other than main, long enough to be validated, went unreported.
C8_Witness ==
    /\ phase = "done" /\ cfg.validateFunctions /\ pkg.name # PackageMain
    /\ \E d \in AllFuncs :
          /\ d.name = FuncInit /\ d.doc.nil
          /\ SpanOf(d) >= cfg.minFunLen
          /\ FuncViolations(d) = {}

\* C9: in package foo (not main) with package validation on, the file foo.go
\* yields no package-documentation violation when its leading comment begins
\* with "Package foo", exactly one, citing the expected prefix, when the
\* comment begins otherwise, and exactly one when the comment is missing.
C9_PackageCommentOfTheNamesakeFile ==
    (phase = "done" /\ pkg.name = pkgFoo /\ cfg.validatePackages) =>
        \A f \in FilesNamed(pathFoo) :
            IF f.doc.nil
            THEN \E k \in DOMAIN calls :
                    /\ PkgDocViolations = {k}
                    /\ calls[k].format = fmtPkgNoComment
            ELSE IF HasPrefix(f.doc.text, packagePrefix \o pkgFoo)
            THEN PkgDocViolations = {}
            ELSE \E k \in DOMAIN calls :
                    /\ PkgDocViolations = {k}
                    /\ calls[k].format = fmtPkgPrefix
                    /\ calls[k].args = <<pkgFoo, packagePrefix \o pkgFoo>>

\* C9 witness: foo.go of package foo opens with "This package does X." under
\* a directive comment for the analyzer, and the one violation about the
\* prefix is in the output.
C9_Witness ==
    /\ phase = "done" /\ pkg.name = pkgFoo /\ cfg.validatePackages
    /\ \E f \in FilesNamed(pathFoo) : f.doc = DocOf(pkgDocOther) /\ f.comments # <<>>
    /\ \E j \in DOMAIN sink : sink[j].format = fmtPkgPrefix \o " (%s)"
    /\ Cardinality(PkgDocViolations) = 1

\* C10: doc.go counts as the package-documentation file like foo.go: a package
\* with doc.go and without foo.go gets no 'no file containing package comment'
\* violation, and the leading comment of doc.go is checked against the prefix
\* "Package foo".
C10_DocFileHoldsThePackageComment ==
    (/\ phase = "done" /\ pkg.name = pkgFoo /\ cfg.validatePackages
     /\ FilesNamed(pathFoo) = {}) =>
        \A f \in FilesNamed(pathDoc) :
            /\ \A k \in DOMAIN calls : calls[k].format # fmtPkgNoFile
            /\ (f.doc.nil \/ ~HasPrefix(f.doc.text, packagePrefix \o pkgFoo))
                  => Cardinality(PkgDocViolations) = 1

----------------------------------------------------------------------------
(* What the declarations of the package are, read off the input            *)

\* the (file, index) pairs of the file-scope constant, type and variable
\* declarations
TopGenDecls ==
    UNION {{<<i, j>> : j \in {k \in DOMAIN pkg.files[i].decls :
                                 /\ pkg.files[i].decls[k].kind = "gen"
                                 /\ pkg.files[i].decls[k].tok \in {"const", "type", "var"}}} :
              i \in DOMAIN pkg.files}

\* the file-scope import declarations
TopImportDecls ==
    UNION {{pkg.files[i].decls[j] :
               j \in {k \in DOMAIN pkg.files[i].decls :
                         /\ pkg.files[i].decls[k].kind = "gen"
                         /\ pkg.files[i].decls[k].tok = "import"}} :
              i \in DOMAIN pkg.files}

\* the declarations found directly in the bodies of the file-scope functions
NestedGenDecls ==
    UNION {UNION {{pkg.files[i].decls[j].body[b] : b \in DOMAIN pkg.files[i].decls[j].body} :
                     j \in {k \in DOMAIN pkg.files[i].decls :
                               pkg.files[i].decls[k].kind = "func"}} :
              i \in DOMAIN pkg.files}

\* the members of a declaration
MembersOf(d) == {d.specs[m] : m \in DOMAIN d.specs}

\* the option that switches the rule of a kind of declaration on
RuleOn(tok) ==
    CASE tok = "const" -> cfg.validateConstants
      [] tok = "type" -> cfg.validateTypes
      [] OTHER -> cfg.validateVariables

\* the file is generated, or a test file by its name
Skippable(f) ==
    \/ \E c \in DOMAIN f.comments : f.comments[c].text = cGenerated
    \/ f.path \in {pathFooTest, pathTestFoo}

\* the file may hold the package comment: <package>.go or doc.go
Qualifies(f) ==
    \/ f.path = <<"p", "/">> \o pkg.name \o <<".", "g", "o">>
    \/ f.path = <<"p", "/", "d", "o", "c", ".", "g", "o">>

\* the calls that report the lack of a package-documentation file
NoFileViolations == {k \in DOMAIN calls : calls[k].format = fmtPkgNoFile}

\* the calls made at a position with one of the formats
ViolationsAt(pos, formats) ==
    {k \in DOMAIN calls : calls[k].pos = pos /\ calls[k].format \in formats}

BlockFormat(tok) ==
    CASE tok = "const" -> fmtConstBlock
      [] tok = "type" -> fmtTypeBlock
      [] OTHER -> fmtVarBlock

SeparatedFormat(tok) == IF tok = "const" THEN fmtConstSeparated ELSE fmtVarSeparated

NoCommentFormat(tok) ==
    CASE tok = "const" -> fmtConstNoComment
      [] tok = "type" -> fmtTypeNoComment
      [] OTHER -> fmtVarNoComment

PrefixFormat(tok) ==
    CASE tok = "const" -> fmtConstPrefix
      [] tok = "type" -> fmtTypePrefix
      [] OTHER -> fmtVarPrefix

\* the formats of the doc-comment violations of single declarations
MemberDocFormats ==
    {fmtConstNoComment, fmtConstPrefix, fmtTypeNoComment, fmtTypePrefix,
     fmtVarNoComment, fmtVarPrefix}

\* the constant block at index j of file i is enum-like: the declaration in
\* front of it is a single type declaration without parentheses and every
\* member is a value spec with that type as its explicit type
EnumLike(i, j) ==
    /\ j > 1
    /\ LET before == pkg.files[i].decls[j - 1]
       IN  /\ before.kind = "gen" /\ before.tok = "type"
           /\ ~before.lparen /\ Len(before.specs) = 1
           /\ \A m \in MembersOf(pkg.files[i].decls[j]) :
                 m.kind = "value" /\ m.type = before.specs[1].names[1]

\* the file-scope declarations of the files that are neither generated nor
\* test files, whose rule is switched on
CheckedGenDecls ==
    {pkg.files[ij[1]].decls[ij[2]] :
        ij \in {x \in TopGenDecls :
                   /\ ~Skippable(pkg.files[x[1]])
                   /\ RuleOn(pkg.files[x[1]].decls[x[2]].tok)}}

----------------------------------------------------------------------------
(* Claims about packages and declarations                                  *)

\* C11: when the package is not main, package validation is on and no file of
\* the package is <package>.go or doc.go, exactly one 'no file containing
\* package comment' violation is emitted, and it is the last violation of the
\* run; otherwise none is emitted.
C11_OnePackageLevelViolationAtTheEnd ==
    phase = "done" =>
        IF /\ pkg.name # PackageMain
           /\ cfg.validatePackages
           /\ \A i \in DOMAIN pkg.files : ~Qualifies(pkg.files[i])
        THEN /\ NoFileViolations = {Len(calls)}
             /\ calls[Len(calls)].kind = "reported"
        ELSE NoFileViolations = {}

\* C12: with the constant rule on, a parenthesized file-scope constant block
\* without doc comment is spared the 'constant block has no comment' violation
\* if and only if it is enum-like.
C12_EnumLikeBlocksNeedNoComment ==
    (phase = "done" /\ cfg.validateConstants) =>
        \A ij \in TopGenDecls :
            LET d == pkg.files[ij[1]].decls[ij[2]]
            IN  (d.tok = "const" /\ d.lparen /\ d.doc.nil) =>
                   (EnumLike(ij[1], ij[2]) <=> ViolationsAt(d.pos, {fmtConstBlock}) = {})

\* C13: a file-scope constant or variable statement that names more than one
\* identifier gets exactly one 'should be separated' violation, which lists
\* its names, whether or not the statement or its block has a doc comment, and
\* no 'no comment' or 'wrong prefix' violation.
C13_SeveralNamesAreToBeSeparated ==
    phase = "done" =>
        \A d \in CheckedGenDecls :
            d.tok \in {"const", "var"} =>
                \A vs \in MembersOf(d) :
                    Len(vs.names) > 1 =>
                        /\ \E k \in DOMAIN calls :
                              /\ ViolationsAt(vs.pos, {fmtConstSeparated, fmtVarSeparated}) = {k}
                              /\ calls[k].format = SeparatedFormat(d.tok)
                              /\ calls[k].args = <<vs.names[1] \o <<",", " ">> \o vs.names[2]>>
                        /\ ViolationsAt(vs.pos, MemberDocFormats) = {}

\* C13 witness: a documented variable statement naming A and B, inside a
\* documented variable block, was flagged.
C13_Witness ==
    /\ phase = "done"
    /\ \E d \in CheckedGenDecls :
          /\ d.tok = "var" /\ d.lparen /\ ~d.doc.nil
          /\ \E vs \in MembersOf(d) :
                /\ vs.names = <<idA, idB>> /\ ~vs.doc.nil
                /\ ViolationsAt(vs.pos, {fmtVarSeparated}) # {}

\* C14: for a file-scope constant, variable or type declaration of one name
\* (other than the blank variable), the doc comment that counts is the
\* member's own inside parentheses and the declaration's otherwise; it gets
\* exactly one violation, 'no comment', when that comment is missing, exactly
\* one, 'wrong prefix', when it does not begin with the name, and none
\* otherwise.
C14_OneNameIsDocumentedByItsOwnComment ==
    phase = "done" =>
        \A d \in CheckedGenDecls :
            \A sp \in MembersOf(d) :
                (Len(sp.names) = 1 /\ ~(d.tok = "var" /\ sp.names[1] = <<"_">>)) =>
                    LET doc == IF d.lparen THEN sp.doc ELSE d.doc
                        found == ViolationsAt(sp.pos, MemberDocFormats)
                    IN  IF doc.nil
                        THEN \E k \in DOMAIN calls :
                                /\ found = {k}
                                /\ calls[k].format = NoCommentFormat(d.tok)
                        ELSE IF ~HasPrefix(doc.text, sp.names[1])
                        THEN \E k \in DOMAIN calls :
                                /\ found = {k}
                                /\ calls[k].format = PrefixFormat(d.tok)
                        ELSE found = {}

\* C14 witness: constant A without a comment of its own, inside a documented
\* constant block, got the 'no comment' violation.
C14_Witness ==
    /\ phase = "done"
    /\ \E d \in CheckedGenDecls :
          /\ d.tok = "const" /\ d.lparen /\ ~d.doc.nil
          /\ \E sp \in MembersOf(d) :
                /\ sp.names = <<idA>> /\ sp.doc.nil
                /\ ViolationsAt(sp.pos, {fmtConstNoComment}) # {}

\* C15: a variable declaration whose only name is the blank identifier gets
\* neither a 'no comment' nor a 'wrong prefix' violation, with or without
\* parentheses.
C15_BlankVariableIsExempt ==
    phase = "done" =>
        \A ij \in TopGenDecls :
            LET d == pkg.files[ij[1]].decls[ij[2]]
            IN  d.tok = "var" =>
                   \A vs \in MembersOf(d) :
                       vs.names = <<idBlank>> =>
                           ViolationsAt(vs.pos, MemberDocFormats) = {}

\* C16: no violation is emitted at a constant, type or variable declaration
\* that stands in a function body, nor at one of its members.
C16_NestedDeclarationsAreNotValidated ==
    phase = "done" =>
        \A g \in NestedGenDecls :
            \A k \in DOMAIN calls :
                /\ calls[k].pos # g.pos
                /\ \A sp \in MembersOf(g) : calls[k].pos # sp.pos

\* C17: a file that is generated or a test file yields no violation: none at
\* a position inside the file and none about its package comment.
C17_GeneratedAndTestFilesAreSkipped ==
    phase = "done" =>
        \A i \in DOMAIN pkg.files :
            Skippable(pkg.files[i]) =>
                /\ \A k \in DOMAIN calls :
                      PositionFor(Fset(pkg), calls[k].pos).Filename # pkg.files[i].path
                /\ Qualifies(pkg.files[i]) =>
                      \A k \in DOMAIN calls : calls[k].format \notin PkgDocFormats

\* the package name has an uppercase letter, a dash or an underscore
BadlyNamed ==
    \E i \in DOMAIN pkg.name :
        pkg.name[i] \in {"-", "_"} \/ IsUpper(pkg.name[i])

\* the calls that report a violation of the package naming rule
NamingViolations ==
    {k \in DOMAIN calls : calls[k].format \in {fmtPkgNoDashes, fmtPkgLowercase}}

\* C18: a package-naming violation is emitted exactly when the package name
\* has an uppercase letter, '-' or '_', and it is attached to the position of
\* a package declaration, which is a file and a line.
C18_NamingViolationAtThePackageClause ==
    phase = "done" =>
        /\ BadlyNamed <=> NamingViolations # {}
        /\ \A k \in NamingViolations :
              /\ \E i \in DOMAIN pkg.files : calls[k].pos = pkg.files[i].package
              /\ PositionFor(Fset(pkg), calls[k].pos).Line >= 1

\* C20: no member of a tree the parser builds aborts the analysis: every run
\* ends normally; a declaration no rule applies to, such as an import
\* declaration, whose spec has no name, yields no report; and the declarations
\* and files behind it are still analysed: the undocumented constant of the
\* following file bar.go is reported.
C20_MalformedMemberNeverAborts ==
    phase # "input" =>
        /\ phase = "done"
        /\ \A g \in TopImportDecls : \A k \in DOMAIN calls : calls[k].pos # g.pos
        /\ \A i \in DOMAIN pkg.files :
              (pkg.files[i] = UndocumentedFile(i) /\ cfg.validateConstants) =>
                  ViolationsAt(PosOf(i, 1), {fmtConstNoComment}) # {}

\* C20 witness: a run that ended normally on a file that opens with an import
\* declaration in front of an undocumented constant, followed by bar.go: both
\* constants are reported and the import declaration is not.
C20_Witness ==
    /\ phase = "done" /\ cfg.validateConstants
    /\ Len(pkg.files) = 2 /\ pkg.files[2] = UndocumentedFile(2)
    /\ Len(pkg.files[1].decls) = 2
    /\ pkg.files[1].decls[1] = ImportDeclOf(1, 1)
    /\ pkg.files[1].decls[2].tok = "const"
    /\ ViolationsAt(PosOf(1, 2), {fmtConstNoComment}) # {}
    /\ ViolationsAt(PosOf(2, 1), {fmtConstNoComment}) # {}
    /\ \A k \in DOMAIN calls : calls[k].pos # PosOf(1, 1)

----------------------------------------------------------------------------
(* Claims about the why analyzer                                           *)

\* the directives that name no rule or have no justification after
\* whitespace
DeficientTexts ==
    {cDirDoculint, cDirEmpty, cDirEmptyWhy, cDirNaked, cDirNakedWhy, cDirWhy,
     cDirNoSpaceWhy, cDirEmptyReason}

\* the directives with a rule list and a justification
JustifiedTexts == {cDirBothWhy, cDirSpacedWhy, cDirWhyJustified}

\* the comments of the files that are neither generated nor test files
AnalysedComments ==
    UNION {{pkg.files[i].comments[j] : j \in DOMAIN pkg.files[i].comments} :
              i \in {f \in DOMAIN pkg.files : ~Skippable(pkg.files[f])}}

\* C19: in a package that is not a test package, every directive of an
\* analysed file that names no rule or lacks a justification has a violation
\* of the why rule in the output (the sink, or the warnings with the warn
\* flag), also when it names the why rule itself; a directive with a rule list
\* and a justification has none.
C19_DeficientDirectivesAreReported ==
    (phase = "done" /\ pkg.name = pkgFoo) =>
        \A c \in AnalysedComments :
            /\ c.text \in DeficientTexts =>
                  \E k \in DOMAIN calls : calls[k].pos = c.pos /\ calls[k].kind # "dropped"
            /\ c.text \in JustifiedTexts =>
                  \A k \in DOMAIN calls : calls[k].pos # c.pos

----------------------------------------------------------------------------
(* State machine of an analysis driver that runs two invocations, each of  *)
(* one analyzer on one package, and interleaves their steps.  Here pkg,    *)
(* pass, sink, calls and phase map each invocation to its own unit of      *)
(* work, wrapper, sink, history and position; cfg (the option variables    *)
(* of the analyzers) and stdout belong to the process.                     *)

Invocations == {1, 2}

\* the analyzers the driver runs
DriverAnalyzers == {lintDoculint, lintWhy}

\* the directives found in the driver's packages
DriverTexts == {cDirDoculint, cDirWhy, cDirNaked}

\* package foo of one file, foo.go or bar.go, with a package comment, the
\* undocumented one-line function foo at line 2, and at most one directive
DriverPackages ==
    {[name |-> pkgFoo,
      files |-> <<[path |-> path, package |-> PosOf(1, 1), doc |-> DocOf(pkgDocGood),
                   comments |-> c, decls |-> <<UndocumentedFunc(1, 2)>>]>>] :
        path \in {pathFoo, pathBar},
        c \in {<<>>} \cup {<<[pos |-> PosOf(1, l), text |-> t]>> :
                              l \in 1..MaxLine, t \in DriverTexts}}

\* a unit of work: an analyzer and the package it is run on
DriverUnits == [analyzer : DriverAnalyzers, package : DriverPackages]

\* the option variables of doculint and the warn flag of why, set before the
\* analysis starts
DriverConfigs ==
    [minFunLen : {1}, validatePackages : {TRUE}, validateFunctions : {TRUE},
     validateVariables : {TRUE}, validateConstants : {TRUE}, validateTypes : {TRUE},
     warn : BOOLEAN]

\* the run of doculint as the driver sees it: doculint always wraps its pass
DoculintRun(run) ==
    [wrapped |-> TRUE, reports |-> run.reports, steps |-> run.steps,
     panicked |-> run.panicked]

\* the run of why as the driver sees it: why prints nothing itself
WhyRun(run) ==
    [wrapped |-> run.wrapped, reports |-> run.reports,
     steps |-> ReportSteps(run.reports), panicked |-> FALSE]

\* the run function of the unit's analyzer under the options in force:
\* whether it wraps the pass, the Reportf calls it makes on the wrapper, these
\* calls and the lines it prints itself as steps in order, and whether it
\* panics
DriverRun(unit, c) ==
    IF unit.analyzer = lintDoculint
    THEN DoculintRun(doculint(unit.package, c))
    ELSE WhyRun(why(unit.package, c.warn))

\* the wrapper the unit's analyzer builds around its analysis pass
DriverWrap(unit, c) ==
    IF unit.analyzer = lintDoculint
    THEN PassWithNoLint(lintDoculint, unit.package)
    ELSE IF IsTestPackage(unit.package.name)
    THEN NoPass
    ELSE NewPass(lintWhy, unit.package, IF c.warn THEN <<"Warn">> ELSE <<>>)

\* where an invocation stands once its run function has started: the steps
\* still to take (Reportf calls and lines to print, in order) and whether it
\* ends in a panic
Started(run) ==
    [at |-> "ready", steps |-> run.steps, panicked |-> run.panicked]

InitDriver ==
    /\ pkg \in [Invocations -> DriverUnits]
    /\ cfg \in DriverConfigs
    /\ pass = [i \in Invocations |-> NoPass]
    /\ sink = [i \in Invocations |-> <<>>]
    /\ stdout = <<>>
    /\ calls = [i \in Invocations |-> <<>>]
    /\ phase = [i \in Invocations |->
                   [at |-> "input", steps |-> <<>>, panicked |-> FALSE]]

\* the start of a run function whose table is one table of the process, to
\* which every invocation adds its directives
DriverNewPassSharedTable(i) ==
    /\ phase[i].at = "input"
    /\ pass' = [j \in Invocations |->
                   [linter |-> IF j = i THEN DriverWrap(pkg[i], cfg).linter ELSE pass[j].linter,
                    warn |-> IF j = i THEN DriverWrap(pkg[i], cfg).warn ELSE pass[j].warn,
                    noLints |-> pass[j].noLints \o DriverWrap(pkg[i], cfg).noLints]]
    /\ phase' = [phase EXCEPT ![i] = Started(DriverRun(pkg[i], cfg))]
    /\ UNCHANGED <<pkg, cfg, sink, stdout, calls>>

\* the run function of invocation i starts: it wraps its own analysis pass,
\* which builds the table from the files of its own package; the Reportf
\* calls it goes on to make are those of its walk over that package
DriverNewPass(i) ==
    /\ phase[i].at = "input"
    /\ pass' = [pass EXCEPT ![i] = DriverWrap(pkg[i], cfg)]
    /\ phase' = [phase EXCEPT ![i] = Started(DriverRun(pkg[i], cfg))]
    /\ UNCHANGED <<pkg, cfg, sink, stdout, calls>>

\* invocation i prints its next line with fmt.Println
DriverPrintln(i) ==
    /\ phase[i].at = "ready"
    /\ phase[i].steps # <<>>
    /\ Head(phase[i].steps).kind = "Println"
    /\ stdout' = Append(stdout, Head(phase[i].steps).line)
    /\ phase' = [phase EXCEPT ![i].steps = Tail(phase[i].steps)]
    /\ UNCHANGED <<pkg, cfg, pass, sink, calls>>

\* invocation i makes its next Reportf call on its wrapper
DriverReportf(i) ==
    /\ phase[i].at = "ready"
    /\ phase[i].steps # <<>>
    /\ Head(phase[i].steps).kind = "Reportf"
    /\ LET r == Head(phase[i].steps).report
           out == ReportfOutcome(pass[i], Fset(pkg[i].package), r.pos, r.format, r.args)
       IN  /\ sink' = [sink EXCEPT ![i] = IF out.kind = "reported"
                                           THEN Append(sink[i], out.diag) ELSE sink[i]]
           /\ stdout' = IF out.kind = "warned" THEN Append(stdout, out.line) ELSE stdout
           /\ calls' = [calls EXCEPT ![i] =
                           Append(calls[i], [pos |-> r.pos, format |-> r.format,
                                             args |-> r.args, kind |-> out.kind])]
    /\ phase' = [phase EXCEPT ![i].steps = Tail(phase[i].steps)]
    /\ UNCHANGED <<pkg, cfg, pass>>

\* the run function of invocation i returns, or ends in its panic
DriverReturn(i) ==
    /\ phase[i].at = "ready"
    /\ phase[i].steps = <<>>
    /\ phase' = [phase EXCEPT ![i].at = IF phase[i].panicked THEN "panicked" ELSE "done"]
    /\ UNCHANGED <<pkg, cfg, pass, sink, stdout, calls>>

NextDriver ==
    \E i \in Invocations :
        DriverNewPass(i) \/ DriverPrintln(i) \/ DriverReportf(i) \/ DriverReturn(i)

SpecDriver == InitDriver /\ [][NextDriver]_vars

----------------------------------------------------------------------------
(* Claims about invocations of the analyzers                               *)

\* the rules a directive of the driver's packages lists
DriverListedRules(text) ==
    CASE text = cDirDoculint -> {lintDoculint}
      [] text = cDirWhy -> {lintWhy}
      [] OTHER -> {}

\* the sites (file name, line) of the directives of package p that list rule R
OwnSites(p, R) ==
    UNION {{<<p.files[f].path, PositionFor(Fset(p), p.files[f].comments[c].pos).Line>> :
               c \in {d \in DOMAIN p.files[f].comments :
                         R \in DriverListedRules(p.files[f].comments[d].text)}} :
              f \in DOMAIN p.files}

\* what the unit's analyzer forwards when it is the only invocation: the
\* outcomes of its Reportf calls on its own wrapper
AloneSink(unit, c) ==
    Forwarded([k \in DOMAIN DriverRun(unit, c).reports |->
                  ReportfOutcome(DriverWrap(unit, c), Fset(unit.package),
                                 DriverRun(unit, c).reports[k].pos,
                                 DriverRun(unit, c).reports[k].format,
                                 DriverRun(unit, c).reports[k].args)])

\* C25: however the steps of the invocations are interleaved, the table of
\* an invocation that has wrapped its pass holds exactly the sites of the
\* directives of its own package that list its own rule, and an invocation
\* that has returned has forwarded what it forwards when it runs alone.
C25_InvocationsDoNotAffectEachOther ==
    \A i \in Invocations :
        /\ phase[i].at # "input" =>
              /\ pass[i].linter = pkg[i].analyzer
              /\ {<<pass[i].noLints[k].filename, pass[i].noLints[k].line>> :
                     k \in DOMAIN pass[i].noLints}
                    = OwnSites(pkg[i].package, pkg[i].analyzer)
        /\ phase[i].at = "done" => sink[i] = AloneSink(pkg[i], cfg)

\* two invocations on distinct packages have returned: the first honoured a
\* directive of its package at the line where the second, whose package has
\* no directive for its rule, forwarded a violation
C25_Witness ==
    /\ phase[1].at = "done" /\ phase[2].at = "done"
    /\ pkg[1].package # pkg[2].package
    /\ OwnSites(pkg[2].package, pkg[2].analyzer) = {}
    /\ \E k \in DOMAIN calls[1], d \in DOMAIN sink[2] :
          /\ calls[1][k].kind = "dropped"
          /\ sink[2][d].pos = calls[1][k].pos

----------------------------------------------------------------------------
(* State machine of doculint run again over the same package in one        *)
(* process. The option variables of the package (cfg) and stdout belong to *)
(* the process; the wrapper, the flag packageHasFileWithSameName and the   *)
(* place in the loop over pass.Files are locals of the run function, held  *)
(* in phase; every run has an analysis pass of its own, whose diagnostics  *)
(* are kept per run in sink, as are the Reportf calls it makes in calls.   *)

\* runs of doculint over the package
MaxRuns == 2

Runs == 1..MaxRuns

\* package foo of a file foo.go or bar.go with a package comment, the
\* undocumented one-line function foo and at most one directive, alone or
\* followed by a file with an undocumented constant
RerunPackages ==
    {[name |-> p.name, files |-> p.files \o more] :
        p \in DriverPackages, more \in {<<>>, <<UndocumentedFile(2)>>}}

\* the option variables of doculint, set before the first run
RerunConfigs ==
    [minFunLen : {1, 2}, validatePackages : BOOLEAN, validateFunctions : {TRUE},
     validateVariables : {TRUE}, validateConstants : {TRUE}, validateTypes : {TRUE}]

InitRerun ==
    /\ pkg \in RerunPackages
    /\ cfg \in RerunConfigs
    /\ pass = [r \in Runs |-> NoPass]
    /\ sink = [r \in Runs |-> <<>>]
    /\ calls = [r \in Runs |-> <<>>]
    /\ stdout = <<>>
    /\ phase = [run |-> 0, at |-> "idle", has |-> FALSE, next |-> 1, steps |-> <<>>,
                panicked |-> FALSE]

\* the start of a run function that keeps packageHasFileWithSameName in a
\* variable of the package, which the run before has left set
RerunStartKeepingFlag ==
    /\ phase.at = "idle"
    /\ phase.run < MaxRuns
    /\ pass' = [pass EXCEPT ![phase.run + 1] = PassWithNoLint(lintDoculint, pkg)]
    /\ phase' = [run |-> phase.run + 1, at |-> "running", has |-> phase.has, next |-> 1,
                 steps |-> ReportSteps(validatePackageName(pkg.name)),
                 panicked |-> FALSE]
    /\ UNCHANGED <<pkg, cfg, sink, stdout, calls>>

\* the run function starts: it wraps its analysis pass, declares the flag
\* packageHasFileWithSameName and calls validatePackageName
RerunStart ==
    /\ phase.at = "idle"
    /\ phase.run < MaxRuns
    /\ pass' = [pass EXCEPT ![phase.run + 1] = PassWithNoLint(lintDoculint, pkg)]
    /\ phase' = [run |-> phase.run + 1, at |-> "running", has |-> FALSE, next |-> 1,
                 steps |-> ReportSteps(validatePackageName(pkg.name)),
                 panicked |-> FALSE]
    /\ UNCHANGED <<pkg, cfg, sink, stdout, calls>>

\* the locals after one turn of the loop over pass.Files
RerunScanned(scanned) ==
    phase' = [phase EXCEPT !.has = scanned.has, !.steps = scanned.steps,
                           !.panicked = scanned.panicked, !.next = phase.next + 1]

\* one turn of the loop over pass.Files: the flag, the check of the package
\* comment and the walk over the declarations of the file
RerunFile ==
    /\ phase.at = "running"
    /\ phase.steps = <<>>
    /\ ~phase.panicked
    /\ phase.next <= Len(pkg.files)
    /\ RerunScanned(ScanFile(pkg.name, pkg.files[phase.next],
                             [has |-> phase.has, reports |-> <<>>, prints |-> <<>>,
                              steps |-> <<>>, panicked |-> FALSE],
                             pkg.name = PackageMain \/ ~cfg.validatePackages,
                             IsPackageDocFile(pkg.name, Fset(pkg), pkg.files[phase.next]),
                             InspectFile(pkg.name, cfg, Fset(pkg),
                                         pkg.files[phase.next].decls)))
    /\ UNCHANGED <<pkg, cfg, pass, sink, stdout, calls>>

\* behind the loop: the package without a file for its comment
RerunAfterLoop ==
    /\ phase.at = "running"
    /\ phase.steps = <<>>
    /\ ~phase.panicked
    /\ phase.next > Len(pkg.files)
    /\ phase' = [phase EXCEPT
                    !.at = "returning",
                    !.steps = IF ~phase.has
                              THEN ReportSteps(<<Report(NoPos, fmtPkgNoFile, <<pkg.name>>)>>)
                              ELSE <<>>]
    /\ UNCHANGED <<pkg, cfg, pass, sink, stdout, calls>>

\* the run prints its next line with fmt.Println
RerunPrintln ==
    /\ phase.at \in {"running", "returning"}
    /\ phase.steps # <<>>
    /\ Head(phase.steps).kind = "Println"
    /\ stdout' = Append(stdout, Head(phase.steps).line)
    /\ phase' = [phase EXCEPT !.steps = Tail(phase.steps)]
    /\ UNCHANGED <<pkg, cfg, pass, sink, calls>>

\* what a Reportf call of the run leaves behind
RerunReported(r, out) ==
    /\ sink' = [sink EXCEPT ![phase.run] = IF out.kind = "reported"
                                           THEN Append(sink[phase.run], out.diag)
                                           ELSE sink[phase.run]]
    /\ stdout' = IF out.kind = "warned" THEN Append(stdout, out.line) ELSE stdout
    /\ calls' = [calls EXCEPT ![phase.run] =
                    Append(calls[phase.run], [pos |-> r.pos, format |-> r.format,
                                              args |-> r.args, kind |-> out.kind])]

\* a Reportf call of the run on its wrapper
RerunCall(r) ==
    RerunReported(r, ReportfOutcome(pass[phase.run], Fset(pkg), r.pos, r.format, r.args))

\* the run makes its next Reportf call on its wrapper
RerunReportf ==
    /\ phase.at \in {"running", "returning"}
    /\ phase.steps # <<>>
    /\ Head(phase.steps).kind = "Reportf"
    /\ RerunCall(Head(phase.steps).report)
    /\ phase' = [phase EXCEPT !.steps = Tail(phase.steps)]
    /\ UNCHANGED <<pkg, cfg, pass>>

\* the run function returns, or ends in the panic of its walk
RerunReturn ==
    /\ phase.at = "returning" \/ (phase.at = "running" /\ phase.panicked)
    /\ phase.steps = <<>>
    /\ phase' = [phase EXCEPT !.at = IF phase.panicked THEN "panicked" ELSE "idle"]
    /\ UNCHANGED <<pkg, cfg, pass, sink, stdout, calls>>

NextRerun ==
    \/ RerunStart
    \/ RerunFile
    \/ RerunAfterLoop
    \/ RerunPrintln
    \/ RerunReportf
    \/ RerunReturn

SpecRerun == InitRerun /\ [][NextRerun]_vars

----------------------------------------------------------------------------
(* Claims about running doculint again                                     *)

\* the files the loop of the run under way has been through
RerunFilesDone == {i \in DOMAIN pkg.files : i < phase.next}

\* a file of the files the run has been through sets the flag: the package
\* is main, or packages are not validated, or the file is <package>.go
RerunFlagDue ==
    \E i \in RerunFilesDone :
        \/ pkg.name = PackageMain
        \/ ~cfg.validatePackages
        \/ pkg.files[i].path = <<"p", "/">> \o pkg.name \o <<".", "g", "o">>

\* the runs that have been started after the first
RerunsStarted == {r \in Runs : 1 < r /\ r <= phase.run}

\* run r has returned
RerunReturned(r) == r < phase.run \/ (r = phase.run /\ phase.at = "idle")

\* the lines the process has printed are the lines of the first n, once for
\* each run
RepeatsEvery(lines, n) ==
    \A k \in DOMAIN lines : k > n => lines[k] = lines[k - n]

\* C21: doculint run again over the same package under the same options makes
\* the Reportf calls of the first run, with the same outcomes, and forwards the
\* same violations in the same order: at every step what a later run has done
\* is the beginning of what the first run did, and all of it once the run has
\* returned, as are the lines it printed. Nothing of an earlier run carries
\* over: the flag is set only by the files the run under way has been
\* through, and the table of a run holds one entry for each directive of the
\* package that lists doculint and nothing else.
C21_RerunYieldsTheSameViolations ==
    /\ phase.has <=> RerunFlagDue
    /\ \A r \in Runs :
          r <= phase.run =>
              /\ {<<pass[r].noLints[k].filename, pass[r].noLints[k].line>> :
                     k \in DOMAIN pass[r].noLints} = OwnSites(pkg, lintDoculint)
              /\ Len(pass[r].noLints) = Cardinality(OwnSites(pkg, lintDoculint))
    /\ \A r \in RerunsStarted :
          /\ HasPrefix(calls[1], calls[r])
          /\ HasPrefix(sink[1], sink[r])
          /\ RerunReturned(r) => (calls[r] = calls[1] /\ sink[r] = sink[1])
    /\ (phase.at = "idle" /\ phase.run >= 1) =>
          /\ Len(stdout) % phase.run = 0
          /\ RepeatsEvery(stdout, Len(stdout) \div phase.run)

\* doculint has run twice over foo.go with a directive and bar.go of package
\* foo: each run set the flag at foo.go, honoured the directive, forwarded a
\* violation and printed a line
C21_Witness ==
    /\ phase.run = 2 /\ phase.at = "idle"
    /\ phase.has
    /\ stdout # <<>>
    /\ sink[2] # <<>>
    /\ \E k \in DOMAIN calls[2] : calls[2][k].kind = "dropped"
    /\ \E k \in DOMAIN calls[2] : calls[2][k].kind = "reported"

----------------------------------------------------------------------------
(* Claims about the life of the suppression table                          *)

\* C24: the table changes in one step only, the construction of the pass,
\* which happens before any Reportf call; every Reportf call leaves the pass
\* as it is, and its outcome is the outcome every earlier call at the same
\* position had, whatever was reported in between.
C24_TableIsBuiltOnceThenReadOnly ==
    [][/\ pass' # pass =>
             /\ phase = "input" /\ phase' = "ready"
             /\ calls = <<>> /\ calls' = <<>>
             /\ pass' = NewPass(pass'.linter, pkg, IF pass'.warn THEN <<"Warn">> ELSE <<>>)
       /\ calls' # calls =>
             /\ phase = "ready"
             /\ pass' = pass
             /\ \A k \in DOMAIN calls :
                   calls[k].pos = calls'[Len(calls')].pos =>
                       calls[k].kind = calls'[Len(calls')].kind]_vars

\* C24 witness: two Reportf calls at the same position were both dropped by
\* the one directive of the table.
C24_Witness ==
    /\ phase = "ready"
    /\ Len(pass.noLints) = 1
    /\ Len(calls) = 2
    /\ calls[1].pos = calls[2].pos
    /\ calls[1].kind = "dropped" /\ calls[2].kind = "dropped"

----------------------------------------------------------------------------
(* Claims about the position of package-level violations                   *)

\* the messages of the violations that concern the package as a whole
PackageLevelFormats ==
    {fmtPkgNoDashes, fmtPkgLowercase, fmtPkgNoComment, fmtPkgPrefix, fmtPkgNoFile}

\* the files of the package that carry a directive listing doculint
FilesWithDoculintDirective ==
    {i \in DOMAIN pkg.files :
        \E c \in DOMAIN pkg.files[i].comments :
            lintDoculint \in ListedRules(pkg.files[i].comments[c].text)}

\* C30: every package-level violation of doculint is reported at position 0,
\* which resolves to no file and line 0, and is forwarded to the sink whatever
\* directives the files of the package carry: the sink holds as many
\* diagnostics at position 0 as package-level Reportf calls were made.
C30_PackageLevelViolationsCannotBeSuppressed ==
    phase \in {"done", "panicked"} =>
        /\ \A k \in DOMAIN calls :
              calls[k].format \in PackageLevelFormats =>
                  /\ calls[k].pos = NoPos
                  /\ PositionFor(Fset(pkg), calls[k].pos) = [Filename |-> <<>>, Line |-> 0]
                  /\ calls[k].kind = "reported"
        /\ Cardinality({k \in DOMAIN calls : calls[k].format \in PackageLevelFormats})
              = Cardinality({d \in DOMAIN sink : sink[d].pos = NoPos})

\* C30 witness: a file opens with a directive listing doculint on the line of
\* its package clause, and the missing package comment of that very file was
\* reported and forwarded all the same.
C30_Witness ==
    /\ phase = "done"
    /\ \E i \in FilesWithDoculintDirective :
          /\ pkg.files[i].doc.nil
          /\ FileBaseName(Fset(pkg), pkg.files[i]) = pkg.name
          /\ pkg.files[i].comments[1].pos = pkg.files[i].package
    /\ \E k \in DOMAIN calls : calls[k].format = fmtPkgNoComment /\ calls[k].kind = "reported"
    /\ \E d \in DOMAIN sink : sink[d].pos = NoPos /\ sink[d].format = fmtPkgNoComment \o " (%s)"

----------------------------------------------------------------------------
(* internal/todo                                                           *)

todoToken ==
    <<"T", "O", "D", "O">>

colonSpace ==
    <<":", " ">>

\* the message of the todo linter; it ends in the required form between
\* backquotes, written here between apostrophes
fmtTodo == "TODO comment must start the line, have a github username and / or a Jira ticket, and be followed by a colon and space: 'TODO(<gh-user>)[<jira-ticket>]: '"

\* the characters of the class [\w-]
reWordDash ==
    {upperCase[i] : i \in DOMAIN upperCase} \cup {lowerCase[i] : i \in DOMAIN lowerCase}
    \cup {"0", "1", "2", "3", "4", "5", "6", "7", "8", "9", "_", "-"}

\* the characters of the class [a-zA-Z\d-]
reTicketChars == reWordDash \ {"_"}

\* what an optional group open [class]+ close matches at the start of s: the
\* bracketed text, or nothing when s does not start with it
GroupAt(s, open, class, close) ==
    IF /\ s # <<>> /\ s[1] = open
       /\ SpanLen(Drop(s, 1), class) >= 1
       /\ Len(s) >= SpanLen(Drop(s, 1), class) + 2
       /\ s[SpanLen(Drop(s, 1), class) + 2] = close
    THEN SubSeq(s, 1, SpanLen(Drop(s, 1), class) + 2)
    ELSE <<>>

\* the two groups of reTodo as consumed from s, the text after TODO, and
\* what is left for the rest of the expression
TodoGroups(user, s) ==
    [user |-> user,
     ticket |-> GroupAt(Drop(s, Len(user)), "[", reTicketChars, "]"),
     rest |-> Drop(s, Len(user) + Len(GroupAt(Drop(s, Len(user)), "[", reTicketChars, "]")))]

\* the end of reTodo, ": .+$", over what the groups left
TodoTail(g) ==
    /\ HasPrefix(g.rest, colonSpace)
    /\ Len(g.rest) > Len(colonSpace)
    /\ \A i \in DOMAIN g.rest : g.rest[i] # "\n"

\* reTodo.FindStringSubmatch: ^TODO(\([\w-]+\))?(\[[a-zA-Z\d-]+\])?: .+$
\* yields the whole match and the two groups, or nothing
FindTodoSubmatch(text) ==
    IF /\ HasPrefix(text, todoToken)
       /\ TodoTail(TodoGroups(GroupAt(Drop(text, Len(todoToken)), "(", reWordDash, ")"),
                              Drop(text, Len(todoToken))))
    THEN <<text,
           TodoGroups(GroupAt(Drop(text, Len(todoToken)), "(", reWordDash, ")"),
                      Drop(text, Len(todoToken))).user,
           TodoGroups(GroupAt(Drop(text, Len(todoToken)), "(", reWordDash, ")"),
                      Drop(text, Len(todoToken))).ticket>>
    ELSE <<>>

\* the check of matchTodo on the submatches
SawUserOrTicket(matches) ==
    Len(matches) >= 3 /\ (matches[2] # <<>> \/ matches[3] # <<>>)

\* matchTodo without the check that a username or a ticket was seen
matchTodoAnyMatch(commentText) ==
    HasPrefix(TrimSpace(TrimPrefix(commentText, slashes)), todoToken) =>
        FindTodoSubmatch(TrimSpace(TrimPrefix(commentText, slashes))) # <<>>

\* matchTodo
matchTodo(commentText) ==
    HasPrefix(TrimSpace(TrimPrefix(commentText, slashes)), todoToken) =>
        SawUserOrTicket(FindTodoSubmatch(TrimSpace(TrimPrefix(commentText, slashes))))

RECURSIVE TodoComments(_)
\* the loop over the comments of a file
TodoComments(comments) ==
    IF comments = <<>>
    THEN <<>>
    ELSE (IF ~matchTodo(Head(comments).text)
          THEN <<Report(Head(comments).pos, fmtTodo, <<>>)>>
          ELSE <<>>)
         \o TodoComments(Tail(comments))

RECURSIVE TodoFiles(_, _)
\* the loop over pass.Files, which leaves out generated files and test files
TodoFiles(fset, files) ==
    IF files = <<>>
    THEN <<>>
    ELSE (IF IsGenerated(Head(files)) \/ IsTestFile(fset, Head(files))
          THEN <<>>
          ELSE TodoComments(Head(files).comments))
         \o TodoFiles(fset, Tail(files))

\* todo: whether it wraps the pass, with which options, and the Reportf
\* calls it makes on the wrapper
todo(p, warn) ==
    IF IsTestPackage(p.name)
    THEN [wrapped |-> FALSE, opts |-> <<>>, reports |-> <<>>]
    ELSE [wrapped |-> TRUE,
          opts |-> IF warn THEN <<"Warn">> ELSE <<>>,
          reports |-> TodoFiles(Fset(p), p.files)]

----------------------------------------------------------------------------
(* State machine of one run of the todo analyzer                           *)

tLeadTodos ==
    <<"T", "O", "D", "O", "S">>

tLeadLower ==
    <<"t", "o", "d", "o">>

tLeadPlain ==
    <<"O", "n", "e", "-", "l", "i", "n", "e", "r">>

tUser ==
    <<"(", "u", "s", "e", "r", ")">>

tUserEmpty ==
    <<"(", ")">>

tTicket ==
    <<"[", "J", "T", "-", "1", "0", "1", "]">>

tTicketEmpty ==
    <<"[", "]">>

tSummary ==
    <<"F", "i", "x", " ", "t", "h", "i", "s", ".">>

cTodoBare ==
    <<"/", "/", " ", "T", "O", "D", "O", ":", " ", "F", "i", "x", " ", "t", "h", "i", "s", ".">>

cTodoGood ==
    <<"/", "/", " ", "T", "O", "D", "O", "(", "u", "s", "e", "r", ")", ":", " ", "F", "i", "x", " ", "t", "h", "i", "s", ".">>

pathTestDir ==
    <<"t", "e", "s", "t", "_", "p", "/", "f", "o", "o", ".", "g", "o">>

\* the parts a comment text is put together from: how the comment opens, a
\* first word, a username and a ticket in either order, a separator and a
\* summary
TodoParts ==
    [open : {slashes, slashes \o <<" ">>},
     lead : {todoToken, tLeadTodos, tLeadLower, tLeadPlain},
     user : {<<>>, tUser, tUserEmpty},
     ticket : {<<>>, tTicket, tTicketEmpty},
     userFirst : BOOLEAN,
     sep : {colonSpace, <<":">>, <<" ">>, <<>>},
     summary : {<<>>, tSummary}]

\* the comment text made of the parts
TodoText(p) ==
    p.open \o p.lead
        \o (IF p.userFirst THEN p.user \o p.ticket ELSE p.ticket \o p.user)
        \o p.sep \o p.summary

TodoTexts == {TodoText(p) : p \in TodoParts}

\* package foo of the file foo.go with one comment, and packages foo and
\* footest of a file in a test-like place with a TODO comment
TodoPackages ==
    {[name |-> pkgFoo,
      files |-> <<[path |-> pathFoo, package |-> PosOf(1, 1), doc |-> NoDoc,
                   comments |-> <<[pos |-> PosOf(1, l), text |-> t]>>,
                   decls |-> <<>>]>>] :
        l \in 1..MaxLine, t \in TodoTexts}
    \cup
    {[name |-> n,
      files |-> <<[path |-> path, package |-> PosOf(1, 1), doc |-> NoDoc,
                   comments |-> <<[pos |-> PosOf(1, 1), text |-> t]>>,
                   decls |-> <<>>]>>] :
        n \in {pkgFoo, pkgFooTest},
        path \in {pathFoo, pathFooTest, pathTestFoo, pathTestDir},
        t \in {cTodoBare, cTodoGood}}

\* the warn flag of the todo analyzer
TodoConfigs == [warn : BOOLEAN]

InitTodo ==
    /\ pkg \in TodoPackages
    /\ cfg \in TodoConfigs
    /\ pass = NoPass
    /\ sink = <<>>
    /\ stdout = <<>>
    /\ calls = <<>>
    /\ phase = "input"

\* the analysis driver runs todo on the package
DoTodo ==
    /\ phase = "input"
    /\ RunOf(lintTodo, todo(pkg, cfg.warn))
    /\ UNCHANGED <<pkg, cfg>>

NextTodo == DoTodo

SpecTodo == InitTodo /\ [][NextTodo]_vars

----------------------------------------------------------------------------
(* Claims about the todo analyzer                                          *)

\* the parts make a comment that the required form accepts: it does not
\* start with TODO, or TODO is followed at once by a username, a ticket or a
\* username and then a ticket, then a colon, a space and a summary
AcceptableParts(p) ==
    \/ ~HasPrefix(p.lead, todoToken)
    \/ /\ p.lead = todoToken
       /\ p.user \in {<<>>, tUser}
       /\ p.ticket \in {<<>>, tTicket}
       /\ p.user # <<>> \/ p.ticket # <<>>
       /\ (p.user # <<>> /\ p.ticket # <<>>) => p.userFirst
       /\ p.sep = colonSpace
       /\ p.summary # <<>>

\* C22: in an analysed file of a package that is no test package, a comment
\* is reported by todo exactly when it starts with TODO and TODO is not
\* followed at once by a username and/or a ticket (the username first), a
\* colon, a space and a non-empty summary.
C22_TodoNeedsUserOrTicketColonSpaceSummary ==
    (phase = "done" /\ pkg.name = pkgFoo /\ pkg.files[1].path = pathFoo) =>
        \A p \in TodoParts :
            TodoText(p) = pkg.files[1].comments[1].text =>
                ((\E k \in DOMAIN calls : calls[k].pos = pkg.files[1].comments[1].pos)
                    <=> ~AcceptableParts(p))

\* C22 witness: the comment "// TODO: Fix this." of foo.go was reported.
C22_Witness ==
    /\ phase = "done" /\ pkg.name = pkgFoo /\ pkg.files[1].path = pathFoo
    /\ pkg.files[1].comments[1].text = cTodoBare
    /\ Len(calls) = 1 /\ calls[1].format = fmtTodo
    /\ calls[1].pos = pkg.files[1].comments[1].pos

\* the paths of the model whose base name is test_*.go or *_test.go
TestNamedPaths == {pathFooTest, pathTestFoo}

\* C28: in a package that is no test package, the comment "// TODO: Fix
\* this." of a file goes unreported by todo exactly when the base name of the
\* file is test_*.go or *_test.go, whatever directory the file lies in.
C28_TestFilesAreKnownByTheirBaseName ==
    (phase = "done" /\ pkg.name = pkgFoo /\ pkg.files[1].comments[1].text = cTodoBare) =>
        (calls = <<>> <=> pkg.files[1].path \in TestNamedPaths)

----------------------------------------------------------------------------
(* internal/config and the start of the driver in cmd/lintroller           *)

TierBronze ==
    <<"b", "r", "o", "n", "z", "e">>

TierSilver ==
    <<"s", "i", "l", "v", "e", "r">>

TierGold ==
    <<"g", "o", "l", "d">>

TierPlatinum ==
    <<"p", "l", "a", "t", "i", "n", "u", "m">>

lintHeader ==
    <<"h", "e", "a", "d", "e", "r">>

lintCopyright ==
    <<"c", "o", "p", "y", "r", "i", "g", "h", "t">>

\* a nil pointer or a nil slice; in a configuration file, a key that is left out
Nil == <<>>

\* a pointer to a value or a slice that is not nil; in a configuration file,
\* a key with its value
Some(value) == <<value>>

\* the nil error
NoError == "nil"

errHeaderFields == "deviation detected from tier minimum defaults in lintroller.header.fields, fields must contain \"%s\""

errMinFunLen == "deviation detected from tier minimum defaults in lintroller.doculint.minfunlen, minfunlen must be set within (0, %d]"

\* a Lintroller value
Lintroller(tier, header, copyright, doculintCfg, todoCfg, whyCfg) ==
    [tier |-> tier, header |-> header, copyright |-> copyright,
     doculint |-> doculintCfg, todo |-> todoCfg, why |-> whyCfg]

\* the zero values of the linter types
ZeroHeader == [enabled |-> FALSE, fields |-> Nil]

ZeroCopyright == [enabled |-> FALSE, pattern |-> ""]

ZeroDoculint ==
    [enabled |-> FALSE, minFunLen |-> 0, validatePackages |-> FALSE,
     validateFunctions |-> FALSE, validateVariables |-> FALSE,
     validateConstants |-> FALSE, validateTypes |-> FALSE]

ZeroTodo == [enabled |-> FALSE]

ZeroWhy == [enabled |-> FALSE]

\* the copyright pattern of the silver, gold and platinum tiers
patternSilver == "^Copyright 20.*$"

\* a copyright pattern of the user's own
patternOther == "^Copyright Outreach$"

TierBronzeConfiguration ==
    Lintroller(Some(TierBronze), [enabled |-> FALSE, fields |-> Nil],
               [enabled |-> FALSE, pattern |-> ""],
               [enabled |-> FALSE, minFunLen |-> 0, validatePackages |-> FALSE,
                validateFunctions |-> FALSE, validateVariables |-> FALSE,
                validateConstants |-> FALSE, validateTypes |-> FALSE],
               [enabled |-> FALSE], [enabled |-> FALSE])

TierSilverConfiguration ==
    Lintroller(Some(TierSilver), [enabled |-> TRUE, fields |-> Some(<<"Description">>)],
               [enabled |-> TRUE, pattern |-> patternSilver],
               [enabled |-> TRUE, minFunLen |-> 0, validatePackages |-> TRUE,
                validateFunctions |-> FALSE, validateVariables |-> FALSE,
                validateConstants |-> FALSE, validateTypes |-> FALSE],
               [enabled |-> TRUE], [enabled |-> TRUE])

TierGoldConfiguration ==
    Lintroller(Some(TierSilver), [enabled |-> TRUE, fields |-> Some(<<"Description">>)],
               [enabled |-> TRUE, pattern |-> patternSilver],
               [enabled |-> TRUE, minFunLen |-> 0, validatePackages |-> TRUE,
                validateFunctions |-> FALSE, validateVariables |-> TRUE,
                validateConstants |-> TRUE, validateTypes |-> TRUE],
               [enabled |-> TRUE], [enabled |-> TRUE])

TierPlatinumConfiguration ==
    Lintroller(Some(TierSilver), [enabled |-> TRUE, fields |-> Some(<<"Description">>)],
               [enabled |-> TRUE, pattern |-> patternSilver],
               [enabled |-> TRUE, minFunLen |-> 10, validatePackages |-> TRUE,
                validateFunctions |-> TRUE, validateVariables |-> TRUE,
                validateConstants |-> TRUE, validateTypes |-> TRUE],
               [enabled |-> TRUE], [enabled |-> TRUE])

\* the closure overrideBool of EnsureMinimums
overrideBool(necessary, current) ==
    IF necessary /\ ~current THEN TRUE ELSE current

\* the desired header fields that the receiver's fields lack, in order
MissingFields(desired, l) ==
    SelectSeq(desired.header.fields[1],
              LAMBDA d : \A j \in DOMAIN l.header.fields[1] : l.header.fields[1][j] # d)

\* EnsureMinimums, the header part: the receiver as it leaves the part and
\* the error the function returns there, if any
EnsureHeader(l, desired) ==
    IF ~overrideBool(desired.header.enabled, l.header.enabled)
    THEN [l |-> l, err |-> NoError, args |-> <<>>]
    ELSE IF l.header.fields = Nil
    THEN [l |-> [l EXCEPT !.header = [enabled |-> TRUE, fields |-> desired.header.fields]],
          err |-> NoError, args |-> <<>>]
    ELSE IF desired.header.fields # Nil /\ MissingFields(desired, l) # <<>>
    THEN [l |-> [l EXCEPT !.header.enabled = TRUE],
          err |-> errHeaderFields, args |-> <<Head(MissingFields(desired, l))>>]
    ELSE [l |-> [l EXCEPT !.header.enabled = TRUE], err |-> NoError, args |-> <<>>]

\* EnsureMinimums, the copyright part
EnsureCopyright(l, desired) ==
    [l EXCEPT !.copyright =
        [enabled |-> overrideBool(desired.copyright.enabled, l.copyright.enabled),
         pattern |-> IF l.copyright.pattern = ""
                     THEN desired.copyright.pattern
                     ELSE IF l.copyright.pattern # desired.copyright.pattern
                     THEN desired.copyright.pattern
                     ELSE l.copyright.pattern]]

\* EnsureMinimums, the doculint part up to the check of minFunLen: the
\* booleans as overridden
DoculintBooleans(l, desired) ==
    IF ~overrideBool(desired.doculint.enabled, l.doculint.enabled)
    THEN l
    ELSE [l EXCEPT !.doculint =
             [enabled |-> TRUE,
              minFunLen |-> l.doculint.minFunLen,
              validatePackages |-> overrideBool(desired.doculint.validatePackages,
                                                l.doculint.validatePackages),
              validateFunctions |-> overrideBool(desired.doculint.validateFunctions,
                                                 l.doculint.validateFunctions),
              validateVariables |-> overrideBool(desired.doculint.validateVariables,
                                                 l.doculint.validateVariables),
              validateConstants |-> overrideBool(desired.doculint.validateConstants,
                                                 l.doculint.validateConstants),
              validateTypes |-> overrideBool(desired.doculint.validateTypes,
                                             l.doculint.validateTypes)]]

\* EnsureMinimums, the check of minFunLen on the receiver with its booleans
\* overridden
EnsureMinFunLen(l, desired) ==
    IF ~(l.doculint.enabled /\ l.doculint.validateFunctions)
    THEN [l |-> l, err |-> NoError, args |-> <<>>]
    ELSE IF l.doculint.minFunLen = 0
    THEN [l |-> [l EXCEPT !.doculint.minFunLen = desired.doculint.minFunLen],
          err |-> NoError, args |-> <<>>]
    ELSE IF l.doculint.minFunLen > desired.doculint.minFunLen \/ l.doculint.minFunLen < 0
    THEN [l |-> l, err |-> errMinFunLen, args |-> <<desired.doculint.minFunLen>>]
    ELSE [l |-> l, err |-> NoError, args |-> <<>>]

\* EnsureMinimums, the todo part
EnsureTodo(l, desired) ==
    [l EXCEPT !.todo.enabled = overrideBool(desired.todo.enabled, l.todo.enabled)]

\* EnsureMinimums, the why part, which is computed from the todo settings
EnsureWhy(l, desired) ==
    [l EXCEPT !.why.enabled = overrideBool(desired.todo.enabled, l.todo.enabled)]

\* the parts of EnsureMinimums after the doculint part
EnsureRest(r, desired) ==
    IF r.err # NoError
    THEN r
    ELSE [l |-> EnsureWhy(EnsureTodo(r.l, desired), desired), err |-> NoError, args |-> <<>>]

\* the parts of EnsureMinimums after the header part
EnsureAfterHeader(r, desired) ==
    IF r.err # NoError
    THEN r
    ELSE EnsureRest(EnsureMinFunLen(DoculintBooleans(EnsureCopyright(r.l, desired), desired),
                                    desired),
                    desired)

\* Lintroller.EnsureMinimums: the receiver as the call leaves it and the
\* error it returns
EnsureMinimums(l, desired) == EnsureAfterHeader(EnsureHeader(l, desired), desired)

\* Lintroller.ValidateTier
ValidateTier(l) ==
    IF l.tier = Nil
    THEN [l |-> l, err |-> NoError, args |-> <<>>]
    ELSE CASE ToLower(l.tier[1]) = TierBronze -> EnsureMinimums(l, TierBronzeConfiguration)
           [] ToLower(l.tier[1]) = TierSilver -> EnsureMinimums(l, TierSilverConfiguration)
           [] ToLower(l.tier[1]) = TierGold -> EnsureMinimums(l, TierGoldConfiguration)
           [] ToLower(l.tier[1]) = TierPlatinum -> EnsureMinimums(l, TierPlatinumConfiguration)
           [] OTHER -> [l |-> l, err |-> NoError, args |-> <<>>]

\* what a key of the configuration file decodes to
Decoded(value, zero) == IF value = Nil THEN zero ELSE value[1]

\* yaml.Decode into a zero Config: keys that are left out keep the zero value
\* of their field
Decode(file) ==
    Lintroller(file.tier,
               IF file.header = Nil THEN ZeroHeader
               ELSE [enabled |-> Decoded(file.header[1].enabled, FALSE),
                     fields |-> file.header[1].fields],
               IF file.copyright = Nil THEN ZeroCopyright
               ELSE [enabled |-> Decoded(file.copyright[1].enabled, FALSE),
                     pattern |-> Decoded(file.copyright[1].pattern, "")],
               IF file.doculint = Nil THEN ZeroDoculint
               ELSE [enabled |-> Decoded(file.doculint[1].enabled, FALSE),
                     minFunLen |-> Decoded(file.doculint[1].minFunLen, 0),
                     validatePackages |-> Decoded(file.doculint[1].validatePackages, FALSE),
                     validateFunctions |-> Decoded(file.doculint[1].validateFunctions, FALSE),
                     validateVariables |-> Decoded(file.doculint[1].validateVariables, FALSE),
                     validateConstants |-> Decoded(file.doculint[1].validateConstants, FALSE),
                     validateTypes |-> Decoded(file.doculint[1].validateTypes, FALSE)],
               IF file.todo = Nil THEN ZeroTodo
               ELSE [enabled |-> Decoded(file.todo[1].enabled, FALSE)],
               IF file.why = Nil THEN ZeroWhy
               ELSE [enabled |-> Decoded(file.why[1].enabled, FALSE)])

\* the table of main: every analyzer with its enabled flag and the options
\* it is built with
AnalyzerTable(c) ==
    <<[enabled |-> c.header.enabled, analyzer |-> lintHeader,
       options |-> [fields |-> c.header.fields]],
      [enabled |-> c.copyright.enabled, analyzer |-> lintCopyright,
       options |-> [pattern |-> c.copyright.pattern]],
      [enabled |-> c.doculint.enabled, analyzer |-> lintDoculint,
       options |-> [minFunLen |-> c.doculint.minFunLen,
                    validatePackages |-> c.doculint.validatePackages,
                    validateFunctions |-> c.doculint.validateFunctions,
                    validateVariables |-> c.doculint.validateVariables,
                    validateConstants |-> c.doculint.validateConstants,
                    validateTypes |-> c.doculint.validateTypes]],
      [enabled |-> c.todo.enabled, analyzer |-> lintTodo, options |-> <<>>],
      [enabled |-> c.why.enabled, analyzer |-> lintWhy, options |-> <<>>]>>

\* the analyzers main hands to multichecker.Main
EnabledAnalyzers(table) == SelectSeq(table, LAMBDA row : row.enabled)

(* The driver's start as a state machine: FromFile decodes the file and    *)
(* validates the tier, then main builds its table and starts the enabled   *)
(* analyzers.                                                              *)

tierSilverCapital ==
    <<"S", "i", "l", "v", "e", "r">>

\* a tier name that is none of the four
tierCopper ==
    <<"c", "o", "p", "p", "e", "r">>

ConfigTiers == {Nil, Some(TierBronze), Some(tierSilverCapital), Some(TierGold),
                Some(TierPlatinum), Some(tierCopper)}

\* the header section of a configuration file
HeaderSections ==
    {Nil} \cup {Some(h) : h \in [enabled : {Nil, Some(TRUE)},
                                  fields : {Nil, Some(<<"Author">>),
                                            Some(<<"Description", "Author">>)}]}

\* the copyright section of a configuration file
CopyrightSections ==
    {Nil} \cup {Some(c) : c \in [enabled : {Nil, Some(TRUE)},
                                  pattern : {Nil, Some(patternSilver), Some(patternOther)}]}

\* the doculint section of a configuration file; validateVariables,
\* validateConstants and validateTypes are set together
DoculintSections ==
    {Nil} \cup
    {Some([enabled |-> d.enabled, minFunLen |-> d.minFunLen,
           validatePackages |-> d.others, validateFunctions |-> d.validateFunctions,
           validateVariables |-> d.others, validateConstants |-> d.others,
           validateTypes |-> d.others]) :
        d \in [enabled : {Nil, Some(TRUE)},
               minFunLen : {Nil, Some(0 - 1), Some(5), Some(11)},
               validateFunctions : {Nil, Some(TRUE), Some(FALSE)},
               others : {Nil, Some(TRUE)}]}

\* the todo or the why section of a configuration file
SwitchSections == {Nil, Some([enabled |-> Some(TRUE)])}

ConfigFiles ==
    [tier : ConfigTiers, header : HeaderSections, copyright : CopyrightSections,
     doculint : DoculintSections, todo : SwitchSections, why : SwitchSections]

\* var cfg Config
ZeroConfig == Lintroller(Nil, ZeroHeader, ZeroCopyright, ZeroDoculint, ZeroTodo, ZeroWhy)

InitConfig ==
    /\ pkg \in ConfigFiles
    /\ cfg = ZeroConfig
    /\ pass = NoPass
    /\ sink = <<>>
    /\ stdout = <<>>
    /\ calls = <<>>
    /\ phase = [at |-> "input", err |-> NoError, args |-> <<>>]

\* FromFile: yaml.NewDecoder(f).Decode(&cfg)
FromFileDecode ==
    /\ phase.at = "input"
    /\ cfg' = Decode(pkg)
    /\ phase' = [phase EXCEPT !.at = "decoded"]
    /\ UNCHANGED <<pkg, pass, sink, stdout, calls>>

\* what FromFile and main do with the result of ValidateTier: an error is
\* fatal in main
Validated(r) ==
    /\ cfg' = r.l
    /\ phase' = [at |-> IF r.err = NoError THEN "validated" ELSE "fatal",
                 err |-> r.err, args |-> r.args]

\* FromFile: cfg.Lintroller.ValidateTier()
FromFileValidateTier ==
    /\ phase.at = "decoded"
    /\ Validated(ValidateTier(cfg))
    /\ UNCHANGED <<pkg, pass, sink, stdout, calls>>

\* main: the table, the enabled analyzers and multichecker.Main
MainStart ==
    /\ phase.at = "validated"
    /\ calls' = AnalyzerTable(cfg)
    /\ sink' = EnabledAnalyzers(AnalyzerTable(cfg))
    /\ phase' = [phase EXCEPT !.at = "started"]
    /\ UNCHANGED <<pkg, cfg, pass, stdout>>

NextConfig ==
    \/ FromFileDecode
    \/ FromFileValidateTier
    \/ MainStart

SpecConfig == InitConfig /\ [][NextConfig]_vars

----------------------------------------------------------------------------
(* Claims about the configuration                                          *)

\* a section of a configuration file that sets none of its keys
SetsNoKey(section) ==
    section = Nil \/ \A k \in DOMAIN section[1] : section[1][k] = Nil

\* a configuration file that names no tier and sets no key of any linter
SetsNothing(file) ==
    /\ file.tier = Nil
    /\ SetsNoKey(file.header) /\ SetsNoKey(file.copyright) /\ SetsNoKey(file.doculint)
    /\ SetsNoKey(file.todo) /\ SetsNoKey(file.why)

\* the options documented as doculint's defaults
DocumentedDoculintOptions ==
    [minFunLen |-> 10, validatePackages |-> TRUE, validateFunctions |-> TRUE,
     validateVariables |-> TRUE, validateConstants |-> TRUE, validateTypes |-> TRUE]

\* C23: once the driver has started from a configuration file that sets no
\* tier and none of the linters' keys, every one of the five linters runs,
\* and doculint runs with minFunLen 10 and all five validations on.
C23_OmittedKeysTakeTheDocumentedDefaults ==
    (phase.at = "started" /\ SetsNothing(pkg)) =>
        /\ Len(sink) = 5
        /\ \A i \in DOMAIN calls : calls[i].enabled
        /\ calls[3].options = DocumentedDoculintOptions

\* the tier minimum that ValidateTier holds the receiver against
DesiredOf(l) ==
    CASE ToLower(l.tier[1]) = TierBronze -> TierBronzeConfiguration
      [] ToLower(l.tier[1]) = TierSilver -> TierSilverConfiguration
      [] ToLower(l.tier[1]) = TierGold -> TierGoldConfiguration
      [] ToLower(l.tier[1]) = TierPlatinum -> TierPlatinumConfiguration

\* the receiver names one of the four tiers
HasKnownTier(l) ==
    /\ l.tier # Nil
    /\ ToLower(l.tier[1]) \in {TierBronze, TierSilver, TierGold, TierPlatinum}

\* the boolean settings of a configuration
BooleanSettings(l) ==
    [header |-> l.header.enabled, copyright |-> l.copyright.enabled,
     doculint |-> l.doculint.enabled, todo |-> l.todo.enabled, why |-> l.why.enabled,
     validatePackages |-> l.doculint.validatePackages,
     validateFunctions |-> l.doculint.validateFunctions,
     validateVariables |-> l.doculint.validateVariables,
     validateConstants |-> l.doculint.validateConstants,
     validateTypes |-> l.doculint.validateTypes]

LinterSwitches == {"header", "copyright", "doculint", "todo", "why"}

\* C26: after EnsureMinimums has returned without error, every boolean
\* setting that was true in the receiver before the call is still true, every
\* linter the tier minimum enables is enabled, and neither the copyright
\* pattern, the header fields nor the minimum function length the user gave
\* has become empty.
C26_EnsureMinimumsNeverLoosensTheReceiver ==
    (phase.at = "validated" /\ HasKnownTier(Decode(pkg))) =>
        /\ \A k \in DOMAIN BooleanSettings(cfg) :
              BooleanSettings(Decode(pkg))[k] => BooleanSettings(cfg)[k]
        /\ \A k \in LinterSwitches :
              BooleanSettings(DesiredOf(Decode(pkg)))[k] => BooleanSettings(cfg)[k]
        /\ Decode(pkg).copyright.pattern # "" => cfg.copyright.pattern # ""
        /\ Decode(pkg).header.fields # Nil => cfg.header.fields # Nil
        /\ Decode(pkg).doculint.minFunLen # 0 => cfg.doculint.minFunLen # 0

\* the receiver is less restrictive than the tier minimum in a way no
\* override repairs: its header fields lack one of the tier's, its minimum
\* function length is negative, or the tier validates functions and the
\* receiver's minimum function length is above the tier's
LessRestrictive(l, desired) ==
    \/ /\ l.header.fields # Nil /\ desired.header.fields # Nil
       /\ MissingFields(desired, l) # <<>>
    \/ l.doculint.minFunLen < 0
    \/ /\ desired.doculint.validateFunctions
       /\ l.doculint.minFunLen > desired.doculint.minFunLen

\* C27: EnsureMinimums returns an error only for a receiver that is less
\* restrictive than the tier minimum.
C27_EnsureMinimumsRejectsOnlyLessRestrictiveReceivers ==
    phase.at = "fatal" => LessRestrictive(Decode(pkg), DesiredOf(Decode(pkg)))

----------------------------------------------------------------------------
(* internal/errorlint. Identifiers are kept as plain strings; the values   *)
(* of string literals are sequences of characters, quotes included.        *)

lintErrorlint ==
    <<"e", "r", "r", "o", "r", "l", "i", "n", "t">>

msgErrEmpty == "message should not be empty"

msgErrCapitalized == "message should not be capitalized"

msgErrPunctuation == "message should not end with punctuation"

\* isIdent
isIdent(expr, ident) == expr.kind = "Ident" /\ expr.name = ident

\* isDotInPkg
isDotInPkg(expr, pkgName, name) ==
    expr.kind = "SelectorExpr" /\ isIdent(expr.x, pkgName) /\ isIdent(expr.sel, name)

\* isNotErrorPackage
isNotErrorPackage(expr) ==
    /\ ~isDotInPkg(expr, "errors", "New") /\ ~isDotInPkg(expr, "errors", "Wrap")
    /\ ~isDotInPkg(expr, "errors", "Wrapf") /\ ~isDotInPkg(expr, "log", "Warn")
    /\ ~isDotInPkg(expr, "log", "Info") /\ ~isDotInPkg(expr, "log", "Error")
    /\ ~isDotInPkg(expr, "trace", "StartSpan") /\ ~isDotInPkg(expr, "trace", "StartCall")
    /\ ~isDotInPkg(expr, "fmt", "Errorf") /\ ~isDotInPkg(expr, "errors", "Errorf")
    /\ ~isDotInPkg(expr, "errors", "WithMessage")
    /\ ~isDotInPkg(expr, "errors", "WithMessagef")

\* getPkgName
getPkgName(expr) ==
    IF expr.kind # "SelectorExpr"
    THEN ""
    ELSE IF isIdent(expr.x, "errors") THEN "errors"
    ELSE IF isIdent(expr.x, "log") THEN "log"
    ELSE IF isIdent(expr.x, "fmt") THEN "fmt"
    ELSE IF isIdent(expr.x, "trace") THEN "trace"
    ELSE ""

\* isUpperCase: unicode.IsUpper holds of some rune of the message
isUpperCase(msg) ==
    \E i \in DOMAIN msg : IsUpper(msg[i])

\* hasPunctuation
hasPunctuation(msg) ==
    msg # <<>> /\ msg[Len(msg)] \in {".", ":", "!", "\n"}

\* getErrorMessages
getErrorMessages(msg) ==
    IF msg = <<>>
    THEN <<msgErrEmpty>>
    ELSE (IF isUpperCase(msg) THEN <<msgErrCapitalized>> ELSE <<>>)
         \o (IF hasPunctuation(msg) THEN <<msgErrPunctuation>> ELSE <<>>)

\* strconv.ErrSyntax
ErrSyntax == [s |-> <<>>, err |-> TRUE]

\* the digits above 9, in the two cases strconv reads them in
hexLetters == <<"a", "b", "c", "d", "e", "f">>

hexCapitals == <<"A", "B", "C", "D", "E", "F">>

decimalDigits == <<"0", "1", "2", "3", "4", "5", "6", "7", "8", "9">>

\* the index of a character in a sequence of characters that holds it
IndexIn(chars, c) == CHOOSE k \in DOMAIN chars : chars[k] = c

\* strconv's unhex: the value of a hexadecimal digit, -1 for any other rune
unhex(c) ==
    IF \E k \in DOMAIN decimalDigits : decimalDigits[k] = c
    THEN IndexIn(decimalDigits, c) - 1
    ELSE IF \E k \in DOMAIN hexLetters : hexLetters[k] = c
    THEN IndexIn(hexLetters, c) + 9
    ELSE IF \E k \in DOMAIN hexCapitals : hexCapitals[k] = c
    THEN IndexIn(hexCapitals, c) + 9
    ELSE 0 - 1

\* the value of a digit in a base, -1 when the rune is no digit of the base
DigitIn(v, base) == IF v >= 0 /\ v < base THEN v ELSE 0 - 1

\* one more digit behind a number, -1 as soon as one rune was no digit
ShiftIn(high, low, base) ==
    IF high < 0 \/ low < 0 THEN 0 - 1 ELSE high * base + low

RECURSIVE NumberIn(_, _)
\* the number a sequence of digits writes in a base, -1 when one of the
\* runes is no digit of the base
NumberIn(digits, base) ==
    IF digits = <<>>
    THEN 0
    ELSE ShiftIn(NumberIn(SubSeq(digits, 1, Len(digits) - 1), base),
                 DigitIn(unhex(digits[Len(digits)]), base), base)

\* what strconv.UnquoteChar hands back: a rune of the text, or one byte
RuneItem(r, tail) == [kind |-> "rune", rune |-> r, tail |-> tail, err |-> FALSE]

ByteItem(v, tail) ==
    IF v < 128
    THEN RuneItem(RuneOf(v), tail)
    ELSE [kind |-> "byte", byte |-> v, tail |-> tail, err |-> FALSE]

ErrItem == [kind |-> "none", tail |-> <<>>, err |-> TRUE]

\* utf8.ValidRune
ValidRune(v) == (v >= 0 /\ v < 55296) \/ (v > 57343 /\ v <= 1114111)

\* strconv.UnquoteChar: the escapes \x with two digits, \u with four and \U
\* with eight, from the number the digits write on
UnquoteHex(c, v, tail) ==
    IF v < 0
    THEN ErrItem
    ELSE IF c = "x"
    THEN ByteItem(v, tail)
    ELSE IF ~ValidRune(v)
    THEN ErrItem
    ELSE RuneItem(RuneOf(v), tail)

\* strconv.UnquoteChar: the escape of three octal digits
UnquoteOctal(v, tail) ==
    IF v < 0 \/ v > 255 THEN ErrItem ELSE ByteItem(v, tail)

\* the number of digits behind \x, \u and \U
HexDigitsOf(c) == CASE c = "x" -> 2 [] c = "u" -> 4 [] c = "U" -> 8

\* the bytes of the one-letter escapes
simpleEscapes ==
    [a |-> 7, b |-> 8, f |-> 12, n |-> 10, r |-> 13, t |-> 9, v |-> 11]

\* strconv.UnquoteChar behind a backslash: c is the rune after the backslash,
\* s what follows c
UnquoteEscape(c, s, quote) ==
    IF c \in DOMAIN simpleEscapes
    THEN ByteItem(simpleEscapes[c], s)
    ELSE IF c \in {"x", "u", "U"}
    THEN IF Len(s) < HexDigitsOf(c)
         THEN ErrItem
         ELSE UnquoteHex(c, NumberIn(SubSeq(s, 1, HexDigitsOf(c)), 16),
                         SubSeq(s, HexDigitsOf(c) + 1, Len(s)))
    ELSE IF c \in {"0", "1", "2", "3", "4", "5", "6", "7"}
    THEN IF Len(s) < 2
         THEN ErrItem
         ELSE UnquoteOctal(NumberIn(<<c>> \o SubSeq(s, 1, 2), 8), SubSeq(s, 3, Len(s)))
    ELSE IF c = "\\"
    THEN RuneItem("\\", s)
    ELSE IF c \in {"'", "\""}
    THEN IF c # quote THEN ErrItem ELSE RuneItem(c, s)
    ELSE ErrItem

\* strconv.UnquoteChar on a text that is not empty
UnquoteChar(s, quote) ==
    IF s[1] = quote /\ quote \in {"'", "\""}
    THEN ErrItem
    ELSE IF s[1] # "\\"
    THEN RuneItem(s[1], Tail(s))
    ELSE IF Len(s) <= 1
    THEN ErrItem
    ELSE UnquoteEscape(s[2], SubSeq(s, 3, Len(s)), quote)

\* an item in front of the rest of the loop of strconv's unquote
UnquotedItem(item, rest) ==
    [items |-> <<item>> \o rest.items, tail |-> rest.tail, err |-> rest.err]

RECURSIVE UnquoteLoop(_, _)
\* the loop of strconv's unquote, from the result of UnquoteChar on: a
\* literal in single quotes holds one character
UnquoteStep(ch, quote) ==
    IF ch.err
    THEN [items |-> <<>>, tail |-> <<>>, err |-> TRUE]
    ELSE IF quote = "'"
    THEN [items |-> <<ch>>, tail |-> ch.tail, err |-> FALSE]
    ELSE UnquotedItem(ch, UnquoteLoop(ch.tail, quote))

\* the loop of strconv's unquote behind the opening quote: it stops at the
\* end or at a quote, and at a new line it fails
UnquoteLoop(s, quote) ==
    IF s = <<>> \/ s[1] = quote
    THEN [items |-> <<>>, tail |-> s, err |-> FALSE]
    ELSE IF s[1] = "\n"
    THEN [items |-> <<>>, tail |-> <<>>, err |-> TRUE]
    ELSE UnquoteStep(UnquoteChar(s, quote), quote)

\* the byte at a place of the items, -1 where a rune or nothing stands
ByteAt(items, k) ==
    IF k <= Len(items) /\ items[k].kind = "byte" THEN items[k].byte ELSE 0 - 1

\* a continuation byte of UTF-8 stands at a place of the items
ContAt(items, k) == ByteAt(items, k) >= 128 /\ ByteAt(items, k) <= 191

\* the number of bytes of the UTF-8 encoding that begins with the first
\* item, 1 when the byte begins none
EncodedLen(items) ==
    IF ByteAt(items, 1) >= 194 /\ ByteAt(items, 1) <= 223 /\ ContAt(items, 2)
    THEN 2
    ELSE IF /\ \/ ByteAt(items, 1) = 224 /\ ByteAt(items, 2) >= 160 /\ ByteAt(items, 2) <= 191
               \/ ByteAt(items, 1) \in (225..236) \cup {238, 239} /\ ContAt(items, 2)
               \/ ByteAt(items, 1) = 237 /\ ByteAt(items, 2) >= 128 /\ ByteAt(items, 2) <= 159
            /\ ContAt(items, 3)
    THEN 3
    ELSE IF /\ \/ ByteAt(items, 1) = 240 /\ ByteAt(items, 2) >= 144 /\ ByteAt(items, 2) <= 191
               \/ ByteAt(items, 1) \in 241..243 /\ ContAt(items, 2)
               \/ ByteAt(items, 1) = 244 /\ ByteAt(items, 2) >= 128 /\ ByteAt(items, 2) <= 143
            /\ ContAt(items, 3) /\ ContAt(items, 4)
    THEN 4
    ELSE 1

\* the rune that n bytes encode, and the name of a byte that encodes none:
\* such a byte stays in the text, where a range loop reads utf8.RuneError
DecodedRune(items, n) ==
    CASE n = 1 -> "\\x" \o Hex(items[1].byte, 2)
      [] n = 2 -> RuneOf((items[1].byte - 192) * 64 + (items[2].byte - 128))
      [] n = 3 -> RuneOf((items[1].byte - 224) * 4096 + (items[2].byte - 128) * 64
                         + (items[3].byte - 128))
      [] n = 4 -> RuneOf((items[1].byte - 240) * 262144 + (items[2].byte - 128) * 4096
                         + (items[3].byte - 128) * 64 + (items[4].byte - 128))

RECURSIVE RunesOf(_)
\* the runes of the bytes the loop appended, from the length of the first
\* encoding on
RunesFrom(items, n) ==
    <<DecodedRune(items, n)>> \o RunesOf(SubSeq(items, n + 1, Len(items)))

\* the runes of the bytes the loop appended
RunesOf(items) ==
    IF items = <<>>
    THEN <<>>
    ELSE IF items[1].kind = "rune"
    THEN <<items[1].rune>> \o RunesOf(Tail(items))
    ELSE RunesFrom(items, EncodedLen(items))

\* strconv.Unquote behind the loop: the closing quote ends the literal
UnquoteEscaped(looped, quote) ==
    IF looped.err \/ looped.tail # <<quote>>
    THEN ErrSyntax
    ELSE [s |-> RunesOf(looped.items), err |-> FALSE]

\* a text without its carriage returns
WithoutCR(s) == SelectSeq(s, LAMBDA c : c # "\r")

\* strconv.Unquote on a literal of two runes or more whose first quote closes
\* at the rune end: a raw string loses its carriage returns, a literal
\* without backslash and new line is taken as it stands, any other goes
\* through the loop
UnquoteQuoted(value, quote, end) ==
    IF quote = "U+0060"
    THEN IF end # Len(value)
         THEN ErrSyntax
         ELSE [s |-> WithoutCR(SubSeq(value, 2, end - 1)), err |-> FALSE]
    ELSE IF quote \notin {"\"", "'"}
    THEN ErrSyntax
    ELSE IF /\ \A k \in 1..end : value[k] \notin {"\\", "\n"}
            /\ (quote = "'" => end <= 3)
    THEN IF end # Len(value)
         THEN ErrSyntax
         ELSE [s |-> SubSeq(value, 2, end - 1), err |-> FALSE]
    ELSE UnquoteEscaped(UnquoteLoop(Tail(value), quote), quote)

\* strconv.Unquote
Unquote(value) ==
    IF Len(value) < 2 \/ \A k \in 2..Len(value) : value[k] # value[1]
    THEN ErrSyntax
    ELSE UnquoteQuoted(value, value[1],
                       CHOOSE k \in 2..Len(value) :
                           value[k] = value[1] /\ \A j \in 2..(k - 1) : value[j] # value[1])

\* lintMessageStrings: the index of the message among the arguments
MsgIndex(fun) ==
    IF \/ isDotInPkg(fun, "errors", "New") \/ isDotInPkg(fun, "fmt", "Errorf")
       \/ isDotInPkg(fun, "errors", "Errorf")
    THEN 0
    ELSE 1

\* what the function handed to ast.Inspect does at one node: it goes on into
\* the node's children
Proceed == [reports |-> <<>>, descend |-> TRUE, panicked |-> FALSE]

\* the Reportf calls for the messages about the message of a call
MessageReports(node, pkgName, msgs) ==
    [k \in DOMAIN msgs |-> Report(node.pos, "%s " \o msgs[k], <<pkgName>>)]

\* lintMessageStrings: the function handed to ast.Inspect, from the result of
\* strconv.Unquote on
LintUnquoted(node, unquoted) ==
    IF unquoted.err
    THEN [reports |-> <<>>, descend |-> FALSE, panicked |-> FALSE]
    ELSE [reports |-> MessageReports(node, getPkgName(node.fun),
                                     getErrorMessages(unquoted.s)),
          descend |-> TRUE, panicked |-> FALSE]

\* lintMessageStrings: the function handed to ast.Inspect, from the argument
\* at the message index on
LintMessage(node, msg) ==
    IF msg.kind # "BasicLit" \/ msg.litKind # "STRING"
    THEN Proceed
    ELSE LintUnquoted(node, Unquote(msg.value))

\* lintMessageStrings: the function handed to ast.Inspect. The index
\* expression call.Args[msgIndex] panics when the index is out of range.
LintNode(node) ==
    IF node.kind # "CallExpr"
    THEN Proceed
    ELSE IF isNotErrorPackage(node.fun) \/ Len(node.args) < 1
    THEN Proceed
    ELSE IF MsgIndex(node.fun) >= Len(node.args)
    THEN [reports |-> <<>>, descend |-> FALSE, panicked |-> TRUE]
    ELSE LintMessage(node, node.args[MsgIndex(node.fun) + 1])

\* the children ast.Inspect goes into, in order
NodeChildren(node) ==
    CASE node.kind = "CallExpr" -> <<node.fun>> \o node.args
      [] node.kind = "SelectorExpr" -> <<node.x, node.sel>>
      [] OTHER -> <<>>

\* one piece of a walk and then the next: a panic ends the walk
ThenInspect(first, second) ==
    IF first.panicked
    THEN [reports |-> first.reports, panicked |-> TRUE]
    ELSE [reports |-> first.reports \o second.reports, panicked |-> second.panicked]

RECURSIVE InspectNodes(_)
\* ast.Inspect at one node, from the result of the function at the node on:
\* the children are walked when the function says so
InspectNode(node, visited) ==
    IF visited.panicked \/ ~visited.descend
    THEN [reports |-> visited.reports, panicked |-> visited.panicked]
    ELSE ThenInspect(visited, InspectNodes(NodeChildren(node)))

\* ast.Inspect over a sequence of nodes, depth first
InspectNodes(nodes) ==
    IF nodes = <<>>
    THEN [reports |-> <<>>, panicked |-> FALSE]
    ELSE ThenInspect(InspectNode(Head(nodes), LintNode(Head(nodes))),
                     InspectNodes(Tail(nodes)))

\* lintMessageStrings on one file
lintMessageStrings(file) == InspectNodes(file.decls)

RECURSIVE ErrorlintFiles(_, _)
\* the loop over pass.Files, which leaves out generated files and test files
ErrorlintFiles(fset, files) ==
    IF files = <<>>
    THEN [reports |-> <<>>, panicked |-> FALSE]
    ELSE ThenInspect(IF IsGenerated(Head(files)) \/ IsTestFile(fset, Head(files))
                     THEN [reports |-> <<>>, panicked |-> FALSE]
                     ELSE lintMessageStrings(Head(files)),
                     ErrorlintFiles(fset, Tail(files)))

\* the Reportf calls and the end of a run that wraps the pass
ErrorlintWrapped(warn, run) ==
    [wrapped |-> TRUE, opts |-> IF warn THEN <<"Warn">> ELSE <<>>,
     reports |-> run.reports, panicked |-> run.panicked]

\* errorlint: whether it wraps the pass, with which options, the Reportf
\* calls it makes on the wrapper and whether it panics
errorlint(p, warn) ==
    IF IsTestPackage(p.name)
    THEN [wrapped |-> FALSE, opts |-> <<>>, reports |-> <<>>, panicked |-> FALSE]
    ELSE ErrorlintWrapped(warn, ErrorlintFiles(Fset(p), p.files))

----------------------------------------------------------------------------
(* State machine of one run of the errorlint analyzer                      *)

\* call expressions per file
MaxCalls == 2

Ident(name) == [kind |-> "Ident", name |-> name]

Selector(x, sel) == [kind |-> "SelectorExpr", x |-> Ident(x), sel |-> Ident(sel)]

StringLit(value) == [kind |-> "BasicLit", litKind |-> "STRING", value |-> value]

IntLit(value) == [kind |-> "BasicLit", litKind |-> "INT", value |-> value]

Call(pos, fun, args) == [kind |-> "CallExpr", pos |-> pos, fun |-> fun, args |-> args]

litGood ==
    <<"\"", "s", "o", "m", "e", "t", "h", "i", "n", "g", " ", "b", "a", "d", "\"">>

litBad ==
    <<"\"", "S", "o", "m", "e", "t", "h", "i", "n", "g", " ", "b", "a", "d", ".", "\"">>

litNewline ==
    <<"\"", "b", "a", "d", "\\", "n", "\"">>

litEmpty ==
    <<"\"", "\"">>

litShout ==
    <<"\"", "B", "a", "d", "\"">>

litEscaped ==
    <<"\"", "\\", "x", "4", "1", "\\", "t", "b", "\"">>

litRaw ==
    <<"U+0060", "b", "a", "d", ".", "U+0060">>

ErrorlintFuns ==
    {Selector("errors", "New"), Selector("errors", "Wrap"), Selector("fmt", "Errorf"),
     Selector("log", "Info"), Selector("fmt", "Println"), Ident("panic")}

ErrorlintMessages == {litGood, litBad, litNewline, litEmpty, litEscaped, litRaw}

\* the argument lists of a call on a line: none, a message, a value, a value
\* and a message, a call and a message, two values, a value and a number
ErrorlintArgs(pos) ==
    {<<>>, <<Ident("err")>>, <<Ident("ctx"), Ident("err")>>,
     <<Ident("err"), IntLit(<<"1">>)>>}
    \cup {<<StringLit(m)>> : m \in ErrorlintMessages}
    \cup {<<Ident("err"), StringLit(m)>> : m \in ErrorlintMessages}
    \cup {<<Call(pos, Selector("fmt", "Errorf"), <<StringLit(litShout)>>), StringLit(m)>> :
            m \in ErrorlintMessages}

\* the call expressions a line can hold
ErrorlintCalls(line) ==
    {Call(PosOf(1, line), f, a) : f \in ErrorlintFuns, a \in ErrorlintArgs(PosOf(1, line))}

RECURSIVE DeclsOfLen(_)
\* the files of n call expressions, one per line from line 1 on
DeclsOfLen(n) ==
    IF n = 0
    THEN {<<>>}
    ELSE {Append(d, c) : d \in DeclsOfLen(n - 1), c \in ErrorlintCalls(n)}

\* the call expressions of a file: at least one, at most max
ErrorlintDecls(max) == UNION {DeclsOfLen(n) : n \in 1..max}

\* the packages of one file foo.go with at most max call expressions
ErrorlintPackages(max) ==
    {[name |-> n,
      files |-> <<[path |-> pathFoo, package |-> PosOf(1, 1), doc |-> NoDoc,
                   comments |-> <<>>, decls |-> d]>>] :
        n \in {pkgFoo, pkgFooTest}, d \in ErrorlintDecls(max)}

InitErrorlint ==
    /\ pkg \in ErrorlintPackages(MaxCalls)
    /\ cfg \in [warn : BOOLEAN]
    /\ pass = NoPass
    /\ sink = <<>>
    /\ stdout = <<>>
    /\ calls = <<>>
    /\ phase = "input"

\* what a run leaves behind: the wrapper, the Reportf calls with their
\* outcomes, the diagnostics, the warnings and how the run ended
ErrorlintDone(run, w, outs) ==
    /\ pass' = w
    /\ calls' = CallsOf(run.reports, outs)
    /\ sink' = Forwarded(outs)
    /\ stdout' = Warned(outs)
    /\ phase' = IF run.panicked THEN "panicked" ELSE "done"

\* the wrapper of a run
ErrorlintPass(run, p) ==
    IF run.wrapped THEN NewPass(lintErrorlint, p, run.opts) ELSE NoPass

\* a run with its wrapper
ErrorlintWith(run, w) == ErrorlintDone(run, w, Outcomes(w, Fset(pkg), run.reports))

\* a run
ErrorlintRun(run) == ErrorlintWith(run, ErrorlintPass(run, pkg))

\* the analysis driver runs errorlint on the package
DoErrorlint ==
    /\ phase = "input"
    /\ ErrorlintRun(errorlint(pkg, cfg.warn))
    /\ UNCHANGED <<pkg, cfg>>

NextErrorlint == DoErrorlint

SpecErrorlint == InitErrorlint /\ [][NextErrorlint]_vars

----------------------------------------------------------------------------
(* Claims about the errorlint analyzer                                     *)

\* a call to one of the checked functions that has arguments, but none at
\* the index of its message
ShortCall(node) ==
    /\ node.kind = "CallExpr"
    /\ ~isNotErrorPackage(node.fun)
    /\ Len(node.args) >= 1
    /\ Len(node.args) <= MsgIndex(node.fun)

\* the package without the short calls at the top of its files
WithoutShortCalls(p) ==
    [p EXCEPT !.files =
        [i \in DOMAIN p.files |->
            [p.files[i] EXCEPT !.decls = SelectSeq(p.files[i].decls,
                                                   LAMBDA n : ~ShortCall(n))]]]

\* C29: a run of errorlint never ends in a panic, and it makes the Reportf
\* calls it makes on the package with the short calls taken out: a short call
\* is skipped without a report and the walk goes on.
C29_ErrorlintSkipsShortCalls ==
    phase # "input" =>
        /\ phase = "done"
        /\ [k \in DOMAIN calls |-> Report(calls[k].pos, calls[k].format, calls[k].args)]
             = errorlint(WithoutShortCalls(pkg), cfg.warn).reports

====
